---- MODULE Spec2Model ----
(***************************************************************************)
(* Streak API: the job / application lifecycle managers and the            *)
(* gamification engine, as state machines over the document store.         *)
(*                                                                         *)
(* Every service method is a pure operator from the stored collections to  *)
(* a result record (the error code it throws, or "ok", and the collections *)
(* after it), and an action that applies the operator to the store.        *)
(***************************************************************************)
EXTENDS Integers, Sequences, FiniteSets, TLC

(***************************************************************************)
(* Bounds of the model.                                                    *)
(***************************************************************************)
MaxJobs == 2
MaxApps == 2
MaxEvents == 3
MaxDays == 3
MaxSeconds == 2
MaxTokens == 2

(***************************************************************************)
(* Users.  Roles never change after registration.                          *)
(***************************************************************************)
Users == {"c1", "a1", "f1", "f2"}

UserRole == {"client", "freelancer", "admin"}

role(u) ==
    CASE u = "c1" -> "client"
      [] u = "a1" -> "admin"
      [] OTHER    -> "freelancer"

Freelancers == {u \in Users : role(u) = "freelancer"}

NoId == "none"

\* An optional Date: absent, or the time it holds.
NoDate == {}
DateOf(t) == {t}

(***************************************************************************)
(* Jobs.                                                                   *)
(***************************************************************************)
JobStatus == {"draft", "open", "in_progress", "completed", "cancelled"}

JobIds == 1..MaxJobs
AppIds == 1..MaxApps

VARIABLES
    jobs,        \* the Job collection: job id -> document
    nextJobId,   \* the next fresh job id
    apps,        \* the Application collection: application id -> document
    nextAppId,   \* the next fresh application id
    stats,       \* User.stats of every user
    now,         \* the wall clock (ms)
    call,        \* the service call each request handler is in the middle of
    gam,         \* User.gamification of every user
    ledger,      \* the ActivityEvent collection, in insertion order
    catalog,     \* the Achievement collection, in storage order
    auth         \* the credentials and session fields of every user document

vars == <<jobs, nextJobId, apps, nextAppId, stats, now, call, gam, ledger,
          catalog, auth>>

Ok == "ok"

\* Object.assign(job, data) followed by job.save(): the fields present in the
\* payload overwrite the document's.
AssignFields(doc, data) ==
    [k \in DOMAIN doc |-> IF k \in data.fields THEN data[k] ELSE doc[k]]

\* The payloads UpdateJobDTO lets through, reduced to the one field of the
\* schema that the model keeps: the optional status.  fields is the set of
\* keys present in the payload.
UpdateJobDTO ==
    {[fields |-> {}, status |-> "draft"]}
    \cup {[fields |-> {"status"}, status |-> s] : s \in JobStatus}

\* User.findByIdAndUpdate(id, {$inc: {stats.<field>: 1}}): no user, no change.
IncStat(st, u, field) ==
    IF u \in DOMAIN st THEN [st EXCEPT ![u][field] = @ + 1] ELSE st

createJob(js, st, id, clientId) ==
    [err   |-> Ok,
     jobs  |-> [j \in DOMAIN js \cup {id} |->
                  IF j = id
                  THEN [clientId |-> clientId, status |-> "draft",
                        assignedFreelancerId |-> NoId,
                        startDate |-> NoDate, completionDate |-> NoDate,
                        applicationsCount |-> 0]
                  ELSE js[j]],
     stats |-> IncStat(st, clientId, "jobsPosted")]

\* Mutant: updateJob without the check that refuses completed and cancelled jobs.
updateJob_NoTerminalGuard(js, jobId, userId, data) ==
    IF jobId \notin DOMAIN js THEN [err |-> "NOT_FOUND", jobs |-> js]
    ELSE IF js[jobId].clientId # userId THEN [err |-> "FORBIDDEN", jobs |-> js]
    ELSE [err |-> Ok, jobs |-> [js EXCEPT ![jobId] = AssignFields(@, data)]]

updateJob(js, jobId, userId, data) ==
    IF jobId \notin DOMAIN js THEN [err |-> "NOT_FOUND", jobs |-> js]
    ELSE IF js[jobId].clientId # userId THEN [err |-> "FORBIDDEN", jobs |-> js]
    ELSE IF js[jobId].status \in {"completed", "cancelled"}
         THEN [err |-> "CANNOT_UPDATE_JOB", jobs |-> js]
    ELSE [err |-> Ok, jobs |-> [js EXCEPT ![jobId] = AssignFields(@, data)]]

publishJob(js, jobId, userId) ==
    IF jobId \notin DOMAIN js THEN [err |-> "NOT_FOUND", jobs |-> js]
    ELSE IF js[jobId].clientId # userId THEN [err |-> "FORBIDDEN", jobs |-> js]
    ELSE IF js[jobId].status # "draft" THEN [err |-> "CANNOT_PUBLISH_JOB", jobs |-> js]
    ELSE [err |-> Ok, jobs |-> [js EXCEPT ![jobId].status = "open"]]

\* Mutant: assignFreelancer without the check of the target user.
assignFreelancer_AnyUser(js, jobId, userId, freelancerId, t) ==
    IF jobId \notin DOMAIN js THEN [err |-> "NOT_FOUND", jobs |-> js]
    ELSE IF js[jobId].clientId # userId THEN [err |-> "FORBIDDEN", jobs |-> js]
    ELSE IF js[jobId].status # "open" THEN [err |-> "CANNOT_ASSIGN_JOB", jobs |-> js]
    ELSE [err |-> Ok,
          jobs |-> [js EXCEPT ![jobId].assignedFreelancerId = freelancerId,
                              ![jobId].status = "in_progress",
                              ![jobId].startDate = DateOf(t)]]

\* Mutant: assignFreelancer without the check that the job is open.
assignFreelancer_AnyStatus(js, jobId, userId, freelancerId, t) ==
    IF jobId \notin DOMAIN js THEN [err |-> "NOT_FOUND", jobs |-> js]
    ELSE IF js[jobId].clientId # userId THEN [err |-> "FORBIDDEN", jobs |-> js]
    ELSE IF freelancerId \notin Users \/ role(freelancerId) # "freelancer"
         THEN [err |-> "INVALID_FREELANCER", jobs |-> js]
    ELSE [err |-> Ok,
          jobs |-> [js EXCEPT ![jobId].assignedFreelancerId = freelancerId,
                              ![jobId].status = "in_progress",
                              ![jobId].startDate = DateOf(t)]]

assignFreelancer(js, jobId, userId, freelancerId, t) ==
    IF jobId \notin DOMAIN js THEN [err |-> "NOT_FOUND", jobs |-> js]
    ELSE IF js[jobId].clientId # userId THEN [err |-> "FORBIDDEN", jobs |-> js]
    ELSE IF js[jobId].status # "open" THEN [err |-> "CANNOT_ASSIGN_JOB", jobs |-> js]
    ELSE IF freelancerId \notin Users \/ role(freelancerId) # "freelancer"
         THEN [err |-> "INVALID_FREELANCER", jobs |-> js]
    ELSE [err |-> Ok,
          jobs |-> [js EXCEPT ![jobId].assignedFreelancerId = freelancerId,
                              ![jobId].status = "in_progress",
                              ![jobId].startDate = DateOf(t)]]

\* Mutant: completeJob that counts the job for the client only.
completeJob_ClientOnly(js, st, jobId, userId, t) ==
    IF jobId \notin DOMAIN js THEN [err |-> "NOT_FOUND", jobs |-> js, stats |-> st]
    ELSE IF js[jobId].clientId # userId
         THEN [err |-> "FORBIDDEN", jobs |-> js, stats |-> st]
    ELSE IF js[jobId].status # "in_progress"
         THEN [err |-> "CANNOT_COMPLETE_JOB", jobs |-> js, stats |-> st]
    ELSE [err |-> Ok,
          jobs |-> [js EXCEPT ![jobId].status = "completed",
                              ![jobId].completionDate = DateOf(t)],
          stats |-> IncStat(st, js[jobId].clientId, "jobsCompleted")]

completeJob(js, st, jobId, userId, t) ==
    IF jobId \notin DOMAIN js THEN [err |-> "NOT_FOUND", jobs |-> js, stats |-> st]
    ELSE IF js[jobId].clientId # userId
         THEN [err |-> "FORBIDDEN", jobs |-> js, stats |-> st]
    ELSE IF js[jobId].status # "in_progress"
         THEN [err |-> "CANNOT_COMPLETE_JOB", jobs |-> js, stats |-> st]
    ELSE [err |-> Ok,
          jobs |-> [js EXCEPT ![jobId].status = "completed",
                              ![jobId].completionDate = DateOf(t)],
          stats |-> IncStat(IncStat(st, js[jobId].clientId, "jobsCompleted"),
                            js[jobId].assignedFreelancerId, "jobsCompleted")]

\* Mutant: cancelJob that lets an admin cancel any job.
cancelJob_AdminAllowed(js, jobId, userId) ==
    IF jobId \notin DOMAIN js THEN [err |-> "NOT_FOUND", jobs |-> js]
    ELSE IF js[jobId].clientId # userId /\ role(userId) # "admin"
         THEN [err |-> "FORBIDDEN", jobs |-> js]
    ELSE IF js[jobId].status = "completed" THEN [err |-> "CANNOT_CANCEL_JOB", jobs |-> js]
    ELSE [err |-> Ok, jobs |-> [js EXCEPT ![jobId].status = "cancelled"]]

cancelJob(js, jobId, userId) ==
    IF jobId \notin DOMAIN js THEN [err |-> "NOT_FOUND", jobs |-> js]
    ELSE IF js[jobId].clientId # userId THEN [err |-> "FORBIDDEN", jobs |-> js]
    ELSE IF js[jobId].status = "completed" THEN [err |-> "CANNOT_CANCEL_JOB", jobs |-> js]
    ELSE [err |-> Ok, jobs |-> [js EXCEPT ![jobId].status = "cancelled"]]

\* Mutant: deleteJob that also removes open jobs.
deleteJob_DraftOrOpen(js, jobId, userId) ==
    IF jobId \notin DOMAIN js THEN [err |-> "NOT_FOUND", jobs |-> js]
    ELSE IF js[jobId].clientId # userId THEN [err |-> "FORBIDDEN", jobs |-> js]
    ELSE IF js[jobId].status \notin {"draft", "open"}
         THEN [err |-> "CANNOT_DELETE_JOB", jobs |-> js]
    ELSE [err |-> Ok, jobs |-> [j \in DOMAIN js \ {jobId} |-> js[j]]]

deleteJob(js, jobId, userId) ==
    IF jobId \notin DOMAIN js THEN [err |-> "NOT_FOUND", jobs |-> js]
    ELSE IF js[jobId].clientId # userId THEN [err |-> "FORBIDDEN", jobs |-> js]
    ELSE IF js[jobId].status # "draft" THEN [err |-> "CANNOT_DELETE_JOB", jobs |-> js]
    ELSE [err |-> Ok, jobs |-> [j \in DOMAIN js \ {jobId} |-> js[j]]]

(***************************************************************************)
(* Applications.                                                           *)
(***************************************************************************)
ApplicationStatus == {"pending", "accepted", "rejected", "withdrawn"}

\* The applications stored for a (jobId, freelancerId) pair.
AppsOf(as, jobId, freelancerId) ==
    {a \in DOMAIN as : as[a].jobId = jobId /\ as[a].freelancerId = freelancerId}

\* Job.findByIdAndUpdate(jobId, {$inc: {stats.applicationsCount: d}}): an
\* update operator, run without validators; no such job, no change.
IncApplicationsCount(js, jobId, d) ==
    IF jobId \in DOMAIN js
    THEN [js EXCEPT ![jobId].applicationsCount = @ + d]
    ELSE js

\* Mutant: a collection without the unique index.
UniqueIndexAllows_NoIndex(as, jobId, freelancerId) == TRUE

\* Application.create under the unique index on (jobId, freelancerId): the
\* insert is refused (duplicate key) when the pair is already stored.
UniqueIndexAllows(as, jobId, freelancerId) ==
    AppsOf(as, jobId, freelancerId) = {}

\* The cover letters of the model: the one every application is created
\* with, and a rewritten one.
FirstLetter == "v1"
Letters == {"v1", "v2"}

InsertApplication(as, id, jobId, freelancerId, t) ==
    [a \in DOMAIN as \cup {id} |->
        IF a = id
        THEN [jobId |-> jobId, freelancerId |-> freelancerId,
              coverLetter |-> FirstLetter,
              status |-> "pending", appliedAt |-> DateOf(t),
              respondedAt |-> NoDate]
        ELSE as[a]]

\* Mutant: createApplication without the check that the job is open.
createApplication_NoOpenCheck(as, js, id, freelancerId, jobId, t) ==
    IF jobId \notin DOMAIN js THEN [err |-> "NOT_FOUND", apps |-> as, jobs |-> js]
    ELSE IF js[jobId].clientId = freelancerId
         THEN [err |-> "CANNOT_APPLY_OWN_JOB", apps |-> as, jobs |-> js]
    ELSE IF AppsOf(as, jobId, freelancerId) # {}
         THEN [err |-> "ALREADY_APPLIED", apps |-> as, jobs |-> js]
    ELSE IF ~UniqueIndexAllows(as, jobId, freelancerId)
         THEN [err |-> "DUPLICATE_KEY", apps |-> as, jobs |-> js]
    ELSE [err  |-> Ok,
          apps |-> InsertApplication(as, id, jobId, freelancerId, t),
          jobs |-> IncApplicationsCount(js, jobId, 1)]

\* Mutant: createApplication without the findOne check for an earlier
\* application of the pair; the unique index then refuses the insert.
createApplication_NoExistingCheck(as, js, id, freelancerId, jobId, t) ==
    IF jobId \notin DOMAIN js THEN [err |-> "NOT_FOUND", apps |-> as, jobs |-> js]
    ELSE IF js[jobId].status # "open"
         THEN [err |-> "JOB_NOT_OPEN", apps |-> as, jobs |-> js]
    ELSE IF js[jobId].clientId = freelancerId
         THEN [err |-> "CANNOT_APPLY_OWN_JOB", apps |-> as, jobs |-> js]
    ELSE IF ~UniqueIndexAllows(as, jobId, freelancerId)
         THEN [err |-> "DUPLICATE_KEY", apps |-> as, jobs |-> js]
    ELSE [err  |-> Ok,
          apps |-> InsertApplication(as, id, jobId, freelancerId, t),
          jobs |-> IncApplicationsCount(js, jobId, 1)]

createApplication(as, js, id, freelancerId, jobId, t) ==
    IF jobId \notin DOMAIN js THEN [err |-> "NOT_FOUND", apps |-> as, jobs |-> js]
    ELSE IF js[jobId].status # "open"
         THEN [err |-> "JOB_NOT_OPEN", apps |-> as, jobs |-> js]
    ELSE IF js[jobId].clientId = freelancerId
         THEN [err |-> "CANNOT_APPLY_OWN_JOB", apps |-> as, jobs |-> js]
    ELSE IF AppsOf(as, jobId, freelancerId) # {}
         THEN [err |-> "ALREADY_APPLIED", apps |-> as, jobs |-> js]
    ELSE IF ~UniqueIndexAllows(as, jobId, freelancerId)
         THEN [err |-> "DUPLICATE_KEY", apps |-> as, jobs |-> js]
    ELSE [err  |-> Ok,
          apps |-> InsertApplication(as, id, jobId, freelancerId, t),
          jobs |-> IncApplicationsCount(js, jobId, 1)]

\* Mutant: an updateMany whose $set leaves respondedAt out.
RejectOtherPending_NoDate(as, jobId, applicationId, t) ==
    [a \in DOMAIN as |->
        IF as[a].jobId = jobId /\ a # applicationId /\ as[a].status = "pending"
        THEN [as[a] EXCEPT !.status = "rejected"]
        ELSE as[a]]

\* Mutant: the updateMany filter without its jobId condition.
RejectOtherPending_AnyJob(as, jobId, applicationId, t) ==
    [a \in DOMAIN as |->
        IF a # applicationId /\ as[a].status = "pending"
        THEN [as[a] EXCEPT !.status = "rejected", !.respondedAt = DateOf(t)]
        ELSE as[a]]

\* Application.updateMany({jobId, _id: {$ne: applicationId}, status: pending},
\*                        {$set: {status: rejected, respondedAt: now}})
RejectOtherPending(as, jobId, applicationId, t) ==
    [a \in DOMAIN as |->
        IF as[a].jobId = jobId /\ a # applicationId /\ as[a].status = "pending"
        THEN [as[a] EXCEPT !.status = "rejected", !.respondedAt = DateOf(t)]
        ELSE as[a]]

\* The payloads UpdateApplicationDTO lets through, reduced to the cover
\* letter; the schema has no status key and unknown keys are stripped.
UpdateApplicationDTO ==
    {[fields |-> {}, coverLetter |-> FirstLetter]}
    \cup {[fields |-> {"coverLetter"}, coverLetter |-> l] : l \in Letters}

updateApplication(as, applicationId, userId, data) ==
    IF applicationId \notin DOMAIN as THEN [err |-> "NOT_FOUND", apps |-> as]
    ELSE IF as[applicationId].freelancerId # userId
         THEN [err |-> "FORBIDDEN", apps |-> as]
    ELSE IF as[applicationId].status # "pending"
         THEN [err |-> "CANNOT_UPDATE_APPLICATION", apps |-> as]
    ELSE [err  |-> Ok,
          apps |-> [as EXCEPT ![applicationId] = AssignFields(@, data)]]

\* Mutant: acceptApplication without the check that the job is open.
acceptApplication_NoOpenCheck(as, js, applicationId, userId, t) ==
    IF applicationId \notin DOMAIN as THEN [err |-> "NOT_FOUND", apps |-> as]
    ELSE IF as[applicationId].jobId \notin DOMAIN js
         THEN [err |-> "TYPE_ERROR", apps |-> as]
    ELSE IF js[as[applicationId].jobId].clientId # userId
         THEN [err |-> "FORBIDDEN", apps |-> as]
    ELSE IF as[applicationId].status # "pending"
         THEN [err |-> "APPLICATION_NOT_PENDING", apps |-> as]
    ELSE [err  |-> Ok,
          apps |-> RejectOtherPending(
                       [as EXCEPT ![applicationId].status = "accepted",
                                  ![applicationId].respondedAt = DateOf(t)],
                       as[applicationId].jobId, applicationId, t)]

acceptApplication(as, js, applicationId, userId, t) ==
    IF applicationId \notin DOMAIN as THEN [err |-> "NOT_FOUND", apps |-> as]
    ELSE IF as[applicationId].jobId \notin DOMAIN js
         THEN [err |-> "TYPE_ERROR", apps |-> as]   \* populate('jobId') gave null
    ELSE IF js[as[applicationId].jobId].clientId # userId
         THEN [err |-> "FORBIDDEN", apps |-> as]
    ELSE IF js[as[applicationId].jobId].status # "open"
         THEN [err |-> "JOB_NOT_OPEN", apps |-> as]
    ELSE IF as[applicationId].status # "pending"
         THEN [err |-> "APPLICATION_NOT_PENDING", apps |-> as]
    ELSE [err  |-> Ok,
          apps |-> RejectOtherPending(
                       [as EXCEPT ![applicationId].status = "accepted",
                                  ![applicationId].respondedAt = DateOf(t)],
                       as[applicationId].jobId, applicationId, t)]

\* Mutant: rejectApplication without the check that the application is
\* pending.
rejectApplication_NoPendingCheck(as, js, applicationId, userId, t) ==
    IF applicationId \notin DOMAIN as THEN [err |-> "NOT_FOUND", apps |-> as]
    ELSE IF as[applicationId].jobId \notin DOMAIN js
         THEN [err |-> "TYPE_ERROR", apps |-> as]
    ELSE IF js[as[applicationId].jobId].clientId # userId
         THEN [err |-> "FORBIDDEN", apps |-> as]
    ELSE [err  |-> Ok,
          apps |-> [as EXCEPT ![applicationId].status = "rejected",
                              ![applicationId].respondedAt = DateOf(t)]]

rejectApplication(as, js, applicationId, userId, t) ==
    IF applicationId \notin DOMAIN as THEN [err |-> "NOT_FOUND", apps |-> as]
    ELSE IF as[applicationId].jobId \notin DOMAIN js
         THEN [err |-> "TYPE_ERROR", apps |-> as]   \* populate('jobId') gave null
    ELSE IF js[as[applicationId].jobId].clientId # userId
         THEN [err |-> "FORBIDDEN", apps |-> as]
    ELSE IF as[applicationId].status # "pending"
         THEN [err |-> "APPLICATION_NOT_PENDING", apps |-> as]
    ELSE [err  |-> Ok,
          apps |-> [as EXCEPT ![applicationId].status = "rejected",
                              ![applicationId].respondedAt = DateOf(t)]]

\* Mutant: withdrawApplication that cancels the job with the application.
withdrawApplication_ClosesJob(as, js, applicationId, userId) ==
    IF applicationId \notin DOMAIN as
    THEN [err |-> "NOT_FOUND", apps |-> as, jobs |-> js]
    ELSE IF as[applicationId].freelancerId # userId
         THEN [err |-> "FORBIDDEN", apps |-> as, jobs |-> js]
    ELSE IF as[applicationId].status # "pending"
         THEN [err |-> "CANNOT_WITHDRAW_APPLICATION", apps |-> as, jobs |-> js]
    ELSE [err  |-> Ok,
          apps |-> [as EXCEPT ![applicationId].status = "withdrawn"],
          jobs |-> [j \in DOMAIN js |->
                      IF j = as[applicationId].jobId
                      THEN [js[j] EXCEPT !.status = "cancelled",
                                         !.applicationsCount = @ - 1]
                      ELSE js[j]]]

withdrawApplication(as, js, applicationId, userId) ==
    IF applicationId \notin DOMAIN as
    THEN [err |-> "NOT_FOUND", apps |-> as, jobs |-> js]
    ELSE IF as[applicationId].freelancerId # userId
         THEN [err |-> "FORBIDDEN", apps |-> as, jobs |-> js]
    ELSE IF as[applicationId].status # "pending"
         THEN [err |-> "CANNOT_WITHDRAW_APPLICATION", apps |-> as, jobs |-> js]
    ELSE [err  |-> Ok,
          apps |-> [as EXCEPT ![applicationId].status = "withdrawn"],
          jobs |-> IncApplicationsCount(js, as[applicationId].jobId, -1)]

deleteApplication(as, js, applicationId, userId) ==
    IF applicationId \notin DOMAIN as
    THEN [err |-> "NOT_FOUND", apps |-> as, jobs |-> js]
    ELSE IF as[applicationId].freelancerId # userId
         THEN [err |-> "FORBIDDEN", apps |-> as, jobs |-> js]
    ELSE [err  |-> Ok,
          apps |-> [a \in DOMAIN as \ {applicationId} |-> as[a]],
          jobs |-> IncApplicationsCount(js, as[applicationId].jobId, -1)]

(***************************************************************************)
(* Gamification.                                                           *)
(***************************************************************************)
ActivityType ==
    {"login", "job_posted", "application_sent", "application_accepted",
     "job_completed", "profile_updated"}

\* Mutant: getPointsForActivity without the points table.
getPointsForActivity_NoTable(type) == 0

\* getPointsForActivity: pointsMap[type] || 0
getPointsForActivity(type) ==
    CASE type = "login" -> 5
      [] type = "job_posted" -> 10
      [] type = "application_sent" -> 15
      [] type = "application_accepted" -> 25
      [] type = "job_completed" -> 50
      [] type = "profile_updated" -> 5
      [] OTHER -> 0

MsPerDay == 86400000

TimeOf(d) == CHOOSE t \in d : TRUE

Abs(x) == IF x < 0 THEN -x ELSE x

\* Mutant: getDaysDifference that rounds up.
getDaysDifference_Ceil(date1, date2) ==
    (Abs(date2 - date1) + MsPerDay - 1) \div MsPerDay

\* getDaysDifference: Math.floor(Math.abs(date2 - date1) / (1000*60*60*24))
getDaysDifference(date1, date2) == Abs(date2 - date1) \div MsPerDay

\* Mutant: updateStreak whose first-activity branch leaves longestStreak.
updateStreak_FirstKeepsLongest(g, t) ==
    IF g.lastActivityDate = NoDate
    THEN [g EXCEPT !.currentStreak = 1, !.lastActivityDate = DateOf(t)]
    ELSE LET daysSinceLastActivity == getDaysDifference(TimeOf(g.lastActivityDate), t) IN
         IF daysSinceLastActivity = 0 THEN g
         ELSE IF daysSinceLastActivity = 1
              THEN [g EXCEPT !.currentStreak = @ + 1,
                             !.longestStreak = IF g.currentStreak + 1 > @
                                               THEN g.currentStreak + 1 ELSE @,
                             !.lastActivityDate = DateOf(t)]
         ELSE [g EXCEPT !.currentStreak = 1, !.lastActivityDate = DateOf(t)]

\* Mutant: updateStreak whose reset branch also resets longestStreak.
updateStreak_ResetClearsLongest(g, t) ==
    IF g.lastActivityDate = NoDate
    THEN [g EXCEPT !.currentStreak = 1, !.longestStreak = 1,
                   !.lastActivityDate = DateOf(t)]
    ELSE LET daysSinceLastActivity == getDaysDifference(TimeOf(g.lastActivityDate), t) IN
         IF daysSinceLastActivity = 0 THEN g
         ELSE IF daysSinceLastActivity = 1
              THEN [g EXCEPT !.currentStreak = @ + 1,
                             !.longestStreak = IF g.currentStreak + 1 > @
                                               THEN g.currentStreak + 1 ELSE @,
                             !.lastActivityDate = DateOf(t)]
         ELSE [g EXCEPT !.currentStreak = 1, !.longestStreak = 1,
                        !.lastActivityDate = DateOf(t)]

\* Mutant: updateStreak that advances lastActivityDate on a same-day activity.
updateStreak_SameDayAdvances(g, t) ==
    IF g.lastActivityDate = NoDate
    THEN [g EXCEPT !.currentStreak = 1, !.longestStreak = 1,
                   !.lastActivityDate = DateOf(t)]
    ELSE LET daysSinceLastActivity == getDaysDifference(TimeOf(g.lastActivityDate), t) IN
         IF daysSinceLastActivity = 0 THEN [g EXCEPT !.lastActivityDate = DateOf(t)]
         ELSE IF daysSinceLastActivity = 1
              THEN [g EXCEPT !.currentStreak = @ + 1,
                             !.longestStreak = IF g.currentStreak + 1 > @
                                               THEN g.currentStreak + 1 ELSE @,
                             !.lastActivityDate = DateOf(t)]
         ELSE [g EXCEPT !.currentStreak = 1, !.lastActivityDate = DateOf(t)]

\* Mutant: updateStreak that never raises longestStreak on a consecutive day.
updateStreak_LongestNotRaised(g, t) ==
    IF g.lastActivityDate = NoDate
    THEN [g EXCEPT !.currentStreak = 1, !.longestStreak = 1,
                   !.lastActivityDate = DateOf(t)]
    ELSE LET daysSinceLastActivity == getDaysDifference(TimeOf(g.lastActivityDate), t) IN
         IF daysSinceLastActivity = 0 THEN g
         ELSE IF daysSinceLastActivity = 1
              THEN [g EXCEPT !.currentStreak = @ + 1, !.lastActivityDate = DateOf(t)]
         ELSE [g EXCEPT !.currentStreak = 1, !.lastActivityDate = DateOf(t)]

\* updateStreak on the gamification sub-document g, at time t.
updateStreak(g, t) ==
    IF g.lastActivityDate = NoDate
    THEN [g EXCEPT !.currentStreak = 1, !.longestStreak = 1,
                   !.lastActivityDate = DateOf(t)]
    ELSE LET daysSinceLastActivity == getDaysDifference(TimeOf(g.lastActivityDate), t) IN
         IF daysSinceLastActivity = 0 THEN g
         ELSE IF daysSinceLastActivity = 1
              THEN [g EXCEPT !.currentStreak = @ + 1,
                             !.longestStreak = IF g.currentStreak + 1 > @
                                               THEN g.currentStreak + 1 ELSE @,
                             !.lastActivityDate = DateOf(t)]
         ELSE [g EXCEPT !.currentStreak = 1, !.lastActivityDate = DateOf(t)]

\* An Achievement collection with active and inactive documents.
Catalog ==
    << [id |-> "streak2", type |-> "streak_days", target |-> 2, points |-> 10,
        isActive |-> TRUE],
       [id |-> "points50", type |-> "total_points", target |-> 50, points |-> 50,
        isActive |-> TRUE],
       [id |-> "firstJob", type |-> "jobs_completed", target |-> 1, points |-> 20,
        isActive |-> TRUE],
       [id |-> "applicant", type |-> "applications_sent", target |-> 1, points |-> 5,
        isActive |-> TRUE],
       [id |-> "retired", type |-> "streak_days", target |-> 1, points |-> 100,
        isActive |-> FALSE] >>

\* Achievement.find({isActive: true})
ActiveAchievements == SelectSeq(catalog, LAMBDA a : a.isActive)

InSeq(x, sq) == \E i \in 1..Len(sq) : sq[i] = x

\* Mutant: a switch whose default case unlocks.
Achieved_DefaultUnlocks(g, jobsCompleted, a) ==
    CASE a.type = "streak_days" -> g.currentStreak >= a.target
      [] a.type = "jobs_completed" -> jobsCompleted >= a.target
      [] a.type = "total_points" -> g.totalPoints >= a.target
      [] OTHER -> TRUE

\* The switch on achievement.criteria.type.
Achieved(g, jobsCompleted, a) ==
    CASE a.type = "streak_days" -> g.currentStreak >= a.target
      [] a.type = "jobs_completed" -> jobsCompleted >= a.target
      [] a.type = "total_points" -> g.totalPoints >= a.target
      [] OTHER -> FALSE

\* Mutant: checkAchievements without the "already has it" test.
RECURSIVE checkAchievements_NoIncludes(_, _, _, _)
checkAchievements_NoIncludes(g, jobsCompleted, achievements, i) ==
    IF i > Len(achievements) THEN g
    ELSE LET a == achievements[i] IN
         IF Achieved(g, jobsCompleted, a)
         THEN checkAchievements_NoIncludes(
                  [g EXCEPT !.achievements = Append(@, a.id),
                            !.totalPoints = @ + a.points],
                  jobsCompleted, achievements, i + 1)
         ELSE checkAchievements_NoIncludes(g, jobsCompleted, achievements, i + 1)

\* Mutant: checkAchievements that walks the achievements from the last to
\* the first.
RECURSIVE checkAchievements_Backward(_, _, _, _)
checkAchievements_Backward(g, jobsCompleted, achievements, i) ==
    IF i > Len(achievements) THEN g
    ELSE LET a == achievements[Len(achievements) + 1 - i] IN
         IF InSeq(a.id, g.achievements)
         THEN checkAchievements_Backward(g, jobsCompleted, achievements, i + 1)
         ELSE IF Achieved(g, jobsCompleted, a)
              THEN checkAchievements_Backward(
                       [g EXCEPT !.achievements = Append(@, a.id),
                                 !.totalPoints = @ + a.points],
                       jobsCompleted, achievements, i + 1)
         ELSE checkAchievements_Backward(g, jobsCompleted, achievements, i + 1)

\* checkAchievements: one pass over the achievements from index i on, each
\* step seeing the points and achievements the earlier steps added.
RECURSIVE checkAchievements(_, _, _, _)
checkAchievements(g, jobsCompleted, achievements, i) ==
    IF i > Len(achievements) THEN g
    ELSE LET a == achievements[i] IN
         IF InSeq(a.id, g.achievements)
         THEN checkAchievements(g, jobsCompleted, achievements, i + 1)
         ELSE IF Achieved(g, jobsCompleted, a)
              THEN checkAchievements(
                       [g EXCEPT !.achievements = Append(@, a.id),
                                 !.totalPoints = @ + a.points],
                       jobsCompleted, achievements, i + 1)
         ELSE checkAchievements(g, jobsCompleted, achievements, i + 1)

\* Mutant: recordActivity that creates the event before it looks for the
\* user.
recordActivity_CreateBeforeFind(gm, st, led, userId, type, t) ==
    LET points == getPointsForActivity(type)
        led2   == Append(led, [userId |-> userId, type |-> type,
                               points |-> points, date |-> t])
    IN
    IF type \notin ActivityType
    THEN [err |-> "VALIDATION_ERROR", gam |-> gm, ledger |-> led]
    ELSE IF userId \notin DOMAIN gm
         THEN [err |-> "NOT_FOUND", gam |-> gm, ledger |-> led2]
    ELSE LET g1 == [gm[userId] EXCEPT !.totalPoints = @ + points]
             g2 == updateStreak(g1, t)
             g3 == checkAchievements(g2, st[userId].jobsCompleted,
                                     ActiveAchievements, 1)
         IN  [err |-> Ok, gam |-> [gm EXCEPT ![userId] = g3], ledger |-> led2]

\* recordActivity.  ActivityEvent.create validates type against the schema's
\* enum and throws before anything is stored when it is not one of them.
recordActivity(gm, st, led, userId, type, t) ==
    IF userId \notin DOMAIN gm THEN [err |-> "NOT_FOUND", gam |-> gm, ledger |-> led]
    ELSE IF type \notin ActivityType
         THEN [err |-> "VALIDATION_ERROR", gam |-> gm, ledger |-> led]
    ELSE LET points == getPointsForActivity(type)
             g1 == [gm[userId] EXCEPT !.totalPoints = @ + points]
             g2 == updateStreak(g1, t)
             g3 == checkAchievements(g2, st[userId].jobsCompleted,
                                     ActiveAchievements, 1)
         IN  [err    |-> Ok,
              gam    |-> [gm EXCEPT ![userId] = g3],
              ledger |-> Append(led, [userId |-> userId, type |-> type,
                                      points |-> points, date |-> t])]

\* calculateLevel: Math.floor(totalPoints / 100) + 1
calculateLevel(totalPoints) == (totalPoints \div 100) + 1

\* getUserGamificationStats: the level is computed from totalPoints on every
\* read; the stored gamification.level is not read.
getUserGamificationStats(gm, userId) ==
    IF userId \notin DOMAIN gm THEN [err |-> "NOT_FOUND"]
    ELSE [err           |-> Ok,
          level         |-> calculateLevel(gm[userId].totalPoints),
          totalPoints   |-> gm[userId].totalPoints,
          currentStreak |-> gm[userId].currentStreak,
          longestStreak |-> gm[userId].longestStreak,
          achievements  |-> gm[userId].achievements]

\* The limits that GET /leaderboard?limit=n is called with.
MaxLimit == 5
Limits == 0..MaxLimit

\* User.find().sort({'gamification.totalPoints': -1}): every order of the
\* users in which the points do not increase; users with equal points come
\* in an order that the store chooses.
SortedByPoints(gm) ==
    {sq \in [1..Cardinality(DOMAIN gm) -> DOMAIN gm] :
        /\ \A i, k \in DOMAIN sq : i # k => sq[i] # sq[k]
        /\ \A i, k \in DOMAIN sq :
               i < k => gm[sq[i]].totalPoints >= gm[sq[k]].totalPoints}

\* cursor.limit(n): at most n documents, and no limit at all when n is 0.
LimitTo(sq, n) == IF n = 0 THEN sq ELSE SubSeq(sq, 1, IF n < Len(sq) THEN n ELSE Len(sq))

\* getLeaderboard: the results the call can return, one per order of the
\* sorted users.
getLeaderboard(gm, limit) ==
    {[index \in DOMAIN LimitTo(sq, limit) |->
         [rank          |-> index,
          user          |-> LimitTo(sq, limit)[index],
          totalPoints   |-> gm[LimitTo(sq, limit)[index]].totalPoints,
          currentStreak |-> gm[LimitTo(sq, limit)[index]].currentStreak]]
     : sq \in SortedByPoints(gm)}

(***************************************************************************)
(* The authentication service.  A user is looked up by e-mail, and the     *)
(* model names the e-mail of a user by the user's id.                      *)
(***************************************************************************)
AccountStatus == {"pending", "active", "suspended", "deleted"}
Passwords == {"pw1", "pw2"}

\* The user document of a registered user who has verified the e-mail
\* address and logged out: active, no session, no reset in progress.
VerifiedAccount ==
    [password |-> "pw1", accountStatus |-> "active", refreshTokens |-> <<>>,
     passwordResetToken |-> {}, passwordResetExpires |-> NoDate]

\* JWT_ACCESS_EXPIRES_IN '1h' and JWT_REFRESH_EXPIRES_IN '7d', in seconds.
AccessExpiresIn == 3600
RefreshExpiresIn == 604800
ExpiresIn(type) == IF type = "access" THEN AccessExpiresIn ELSE RefreshExpiresIn

\* generatePasswordResetToken: the reset token expires after one hour.
ResetExpiresMs == 3600000

\* jwt.sign({userId, email, role, type}, secret, {expiresIn}): the token is
\* a function of the payload and of iat, the time of signing in whole
\* seconds; e-mail and role are fixed per user.  Two tokens signed for one
\* user with one type in one second are the same string.
SignToken(userId, type, t) == [userId |-> userId, type |-> type, iat |-> t \div 1000]

generateRefreshToken(userId, t) == SignToken(userId, "refresh", t)

\* A string that is not a token signed with the secret.
BadToken == [userId |-> NoId, type |-> "none", iat |-> 0]

\* verifyToken: jwt.verify accepts a token signed with the secret whose exp
\* (iat + expiresIn) is after the current second; then the type must be the
\* expected one.  TRUE when the token is returned decoded, FALSE when
\* verifyToken throws.
verifyToken(token, expectedType, t) ==
    /\ token.userId # NoId
    /\ t \div 1000 < token.iat + ExpiresIn(token.type)
    /\ token.type = expectedType

\* Array.prototype.filter((token) => token !== refreshToken)
WithoutToken(tokens, refreshToken) == SelectSeq(tokens, LAMBDA x : x # refreshToken)

login(au, email, password, t) ==
    IF email \notin DOMAIN au THEN [err |-> "UNAUTHORIZED", auth |-> au]
    ELSE IF au[email].password # password THEN [err |-> "UNAUTHORIZED", auth |-> au]
    ELSE IF au[email].accountStatus = "suspended"
         THEN [err |-> "UNAUTHORIZED", auth |-> au]
    ELSE IF au[email].accountStatus = "deleted"
         THEN [err |-> "UNAUTHORIZED", auth |-> au]
    ELSE LET token == generateRefreshToken(email, t) IN
         [err  |-> Ok,
          auth |-> [au EXCEPT ![email].refreshTokens = Append(@, token)],
          refreshToken |-> token]

logout(au, userId, refreshToken) ==
    IF userId \notin DOMAIN au THEN [err |-> "NOT_FOUND", auth |-> au]
    ELSE [err  |-> Ok,
          auth |-> [au EXCEPT ![userId].refreshTokens = WithoutToken(@, refreshToken)]]

refreshAccessToken(au, refreshToken, t) ==
    IF ~verifyToken(refreshToken, "refresh", t)
    THEN [err |-> "UNAUTHORIZED", auth |-> au]
    ELSE IF refreshToken.userId \notin DOMAIN au THEN [err |-> "NOT_FOUND", auth |-> au]
    ELSE IF ~InSeq(refreshToken, au[refreshToken.userId].refreshTokens)
         THEN [err |-> "UNAUTHORIZED", auth |-> au]
    ELSE LET userId == refreshToken.userId
             token  == generateRefreshToken(userId, t)
         IN  [err  |-> Ok,
              auth |-> [au EXCEPT ![userId].refreshTokens =
                                      Append(WithoutToken(@, refreshToken), token)],
              refreshToken |-> token]

\* forgotPassword; resetToken is the random string that
\* generatePasswordResetToken draws.
forgotPassword(au, email, resetToken, t) ==
    IF email \notin DOMAIN au THEN [err |-> Ok, auth |-> au]
    ELSE [err  |-> Ok,
          auth |-> [au EXCEPT ![email].passwordResetToken = {resetToken},
                              ![email].passwordResetExpires = DateOf(t + ResetExpiresMs)]]

\* User.findOne({passwordResetToken, passwordResetExpires: {$gt: Date.now()}})
FindByResetToken(au, token, t) ==
    {u \in DOMAIN au : /\ au[u].passwordResetToken = {token}
                       /\ \E e \in au[u].passwordResetExpires : e > t}

resetPassword(au, token, password, t) ==
    IF FindByResetToken(au, token, t) = {}
    THEN [err |-> "INVALID_RESET_TOKEN", auth |-> au]
    ELSE LET u == CHOOSE x \in FindByResetToken(au, token, t) : TRUE IN
         [err  |-> Ok,
          auth |-> [au EXCEPT ![u].password = password,
                              ![u].passwordResetToken = {},
                              ![u].passwordResetExpires = NoDate,
                              ![u].refreshTokens = <<>>]]

changePassword(au, userId, currentPassword, newPassword) ==
    IF userId \notin DOMAIN au THEN [err |-> "NOT_FOUND", auth |-> au]
    ELSE IF au[userId].password # currentPassword
         THEN [err |-> "UNAUTHORIZED", auth |-> au]
    ELSE [err  |-> Ok,
          auth |-> [au EXCEPT ![userId].password = newPassword,
                              ![userId].refreshTokens = <<>>]]

\* UserService.deleteUser: a soft delete.
deleteUser(au, userId) ==
    IF userId \notin DOMAIN au THEN [err |-> "NOT_FOUND", auth |-> au]
    ELSE [err |-> Ok, auth |-> [au EXCEPT ![userId].accountStatus = "deleted"]]

\* The user whose sessions the model follows, the strings that the random
\* reset token is drawn from, and the tokens that requests are sent with:
\* every access and refresh token that can have been signed for that user
\* or for a second one, and a string that is no token.
AuthUsers == {"f1"}
ResetTokens == {"r1", "r2"}
AuthSeconds == (0..MaxSeconds) \cup (RefreshExpiresIn..(RefreshExpiresIn + MaxSeconds))
TokenInputs ==
    [userId : AuthUsers \cup {"f2"}, type : {"access", "refresh"}, iat : AuthSeconds]
        \cup {BadToken}

\* The clock during a session: half a second or a second passes, within the
\* first MaxSeconds seconds, or the lifetime of a refresh token passes, once.
AuthGaps == {500, 1000, RefreshExpiresIn * 1000}

AuthTick(gap) ==
    /\ now + gap <= MaxSeconds * 1000 + (IF gap > 1000 THEN gap ELSE 0)
    /\ now' = now + gap
    /\ UNCHANGED <<jobs, nextJobId, apps, nextAppId, stats, call, gam, ledger, catalog, auth>>

Login(email, password) ==
    /\ email \in DOMAIN auth => Len(auth[email].refreshTokens) < MaxTokens
    /\ auth' = login(auth, email, password, now).auth
    /\ UNCHANGED <<jobs, nextJobId, apps, nextAppId, stats, now, call, gam, ledger, catalog>>

\* POST /api/auth/logout: userId is the authenticated user.
Logout(userId, refreshToken) ==
    /\ auth' = logout(auth, userId, refreshToken).auth
    /\ UNCHANGED <<jobs, nextJobId, apps, nextAppId, stats, now, call, gam, ledger, catalog>>

RefreshAccessToken(refreshToken) ==
    /\ auth' = refreshAccessToken(auth, refreshToken, now).auth
    /\ UNCHANGED <<jobs, nextJobId, apps, nextAppId, stats, now, call, gam, ledger, catalog>>

\* The random reset token is not one that another user holds.
ForgotPassword(email, resetToken) ==
    /\ \A u \in DOMAIN auth : u # email => auth[u].passwordResetToken # {resetToken}
    /\ auth' = forgotPassword(auth, email, resetToken, now).auth
    /\ UNCHANGED <<jobs, nextJobId, apps, nextAppId, stats, now, call, gam, ledger, catalog>>

ResetPassword(token, password) ==
    /\ auth' = resetPassword(auth, token, password, now).auth
    /\ UNCHANGED <<jobs, nextJobId, apps, nextAppId, stats, now, call, gam, ledger, catalog>>

ChangePassword(userId, currentPassword, newPassword) ==
    /\ auth' = changePassword(auth, userId, currentPassword, newPassword).auth
    /\ UNCHANGED <<jobs, nextJobId, apps, nextAppId, stats, now, call, gam, ledger, catalog>>

\* DELETE /api/users/:id, open to the user and to admins.
DeleteUser(userId) ==
    /\ auth' = deleteUser(auth, userId).auth
    /\ UNCHANGED <<jobs, nextJobId, apps, nextAppId, stats, now, call, gam, ledger, catalog>>

\* The gaps between two looks at the clock that the model tries: just under
\* a day, a day, two days.
Gaps == {MsPerDay - 1, MsPerDay, 2 * MsPerDay}

Tick(gap) ==
    /\ now + gap <= MaxDays * MsPerDay
    /\ now' = now + gap
    /\ UNCHANGED <<jobs, nextJobId, apps, nextAppId, stats, call, gam, ledger, catalog, auth>>

RecordActivity(u, type) ==
    /\ Len(ledger) < MaxEvents
    /\ LET r == recordActivity(gam, stats, ledger, u, type, now) IN
         /\ gam' = r.gam
         /\ ledger' = r.ledger
    /\ UNCHANGED <<jobs, nextJobId, apps, nextAppId, stats, now, call, catalog, auth>>

(***************************************************************************)
(* The job actions: one service call each, run to completion.              *)
(***************************************************************************)
\* POST /api/jobs is open to clients and admins only.
CreateJob(c) ==
    /\ nextJobId <= MaxJobs
    /\ role(c) \in {"client", "admin"}
    /\ LET r == createJob(jobs, stats, nextJobId, c) IN
         /\ jobs' = r.jobs
         /\ stats' = r.stats
    /\ nextJobId' = nextJobId + 1
    /\ UNCHANGED <<apps, nextAppId, now, call, gam, ledger, catalog, auth>>

UpdateJob(j, u, data) ==
    /\ LET r == updateJob(jobs, j, u, data) IN
         /\ jobs' = r.jobs
    /\ UNCHANGED <<nextJobId, apps, nextAppId, stats, now, call, gam, ledger, catalog, auth>>

PublishJob(j, u) ==
    /\ LET r == publishJob(jobs, j, u) IN
         /\ jobs' = r.jobs
    /\ UNCHANGED <<nextJobId, apps, nextAppId, stats, now, call, gam, ledger, catalog, auth>>

AssignFreelancer(j, u, f) ==
    /\ LET r == assignFreelancer(jobs, j, u, f, now) IN
         /\ jobs' = r.jobs
    /\ UNCHANGED <<nextJobId, apps, nextAppId, stats, now, call, gam, ledger, catalog, auth>>

CompleteJob(j, u) ==
    /\ LET r == completeJob(jobs, stats, j, u, now) IN
         /\ jobs' = r.jobs
         /\ stats' = r.stats
    /\ UNCHANGED <<nextJobId, apps, nextAppId, now, call, gam, ledger, catalog, auth>>

CancelJob(j, u) ==
    /\ LET r == cancelJob(jobs, j, u) IN
         /\ jobs' = r.jobs
    /\ UNCHANGED <<nextJobId, apps, nextAppId, stats, now, call, gam, ledger, catalog, auth>>

DeleteJob(j, u) ==
    /\ LET r == deleteJob(jobs, j, u) IN
         /\ jobs' = r.jobs
    /\ UNCHANGED <<nextJobId, apps, nextAppId, stats, now, call, gam, ledger, catalog, auth>>

(***************************************************************************)
(* The application actions: one service call each, run to completion.      *)
(***************************************************************************)
\* POST /api/applications is open to freelancers only.
CreateApplication(f, j) ==
    /\ nextAppId <= MaxApps
    /\ role(f) = "freelancer"
    /\ LET r == createApplication(apps, jobs, nextAppId, f, j, now) IN
         /\ apps' = r.apps
         /\ jobs' = r.jobs
         /\ nextAppId' = IF r.err = Ok THEN nextAppId + 1 ELSE nextAppId
    /\ UNCHANGED <<nextJobId, stats, now, call, gam, ledger, catalog, auth>>

UpdateApplication(a, u, data) ==
    /\ LET r == updateApplication(apps, a, u, data) IN
         /\ apps' = r.apps
    /\ UNCHANGED <<jobs, nextJobId, nextAppId, stats, now, call, gam, ledger, catalog, auth>>

AcceptApplication(a, u) ==
    /\ apps' = acceptApplication(apps, jobs, a, u, now).apps
    /\ UNCHANGED <<jobs, nextJobId, nextAppId, stats, now, call, gam, ledger, catalog, auth>>

RejectApplication(a, u) ==
    /\ apps' = rejectApplication(apps, jobs, a, u, now).apps
    /\ UNCHANGED <<jobs, nextJobId, nextAppId, stats, now, call, gam, ledger, catalog, auth>>

WithdrawApplication(a, u) ==
    /\ LET r == withdrawApplication(apps, jobs, a, u) IN
         /\ apps' = r.apps
         /\ jobs' = r.jobs
    /\ UNCHANGED <<nextJobId, nextAppId, stats, now, call, gam, ledger, catalog, auth>>

DeleteApplication(a, u) ==
    /\ LET r == deleteApplication(apps, jobs, a, u) IN
         /\ apps' = r.apps
         /\ jobs' = r.jobs
    /\ UNCHANGED <<nextJobId, nextAppId, stats, now, call, gam, ledger, catalog, auth>>

(***************************************************************************)
(* Concurrent requests.  A handler suspends at every awaited storage call, *)
(* so a service method run by one request is a sequence of steps, one per  *)
(* storage call, and the steps of two requests interleave.                 *)
(***************************************************************************)
Procs == {"p1", "p2"}

\* The gamification sub-document of a user who has no activity yet.
NewGamification ==
    [currentStreak |-> 0, longestStreak |-> 0, lastActivityDate |-> NoDate,
     totalPoints |-> 0, level |-> 1, achievements |-> <<>>]

\* A request that has not begun: which call it makes, its arguments, and the
\* fields of the documents it has loaded.
IdleCall ==
    [pc |-> "idle", applicationId |-> 0, jobId |-> 0, userId |-> NoId,
     freelancerId |-> NoId, type |-> "none", user |-> NewGamification,
     jobsCompleted |-> 0, outcome |-> "none"]

NoCallStarted == \A p \in Procs : call[p] = IdleCall

Finish(c, outcome) == [c EXCEPT !.pc = "done", !.outcome = outcome]

\* acceptApplication, step 1: Application.findById(id).populate('jobId') and
\* the checks on the loaded documents.
AcceptFind(p, a, u) ==
    /\ call[p].pc = "idle"
    /\ LET err == acceptApplication(apps, jobs, a, u, now).err
           c   == [IdleCall EXCEPT !.applicationId = a, !.userId = u]
       IN  call' = [call EXCEPT ![p] =
                       IF err = Ok
                       THEN [c EXCEPT !.pc = "save", !.jobId = apps[a].jobId]
                       ELSE Finish(c, err)]
    /\ UNCHANGED <<jobs, nextJobId, apps, nextAppId, stats, now, gam, ledger, catalog, auth>>

\* acceptApplication, step 2: application.save() writes the two modified
\* paths of the loaded document, whatever the stored document holds by now.
AcceptSave(p) ==
    /\ call[p].pc = "save"
    /\ IF call[p].applicationId \in DOMAIN apps
       THEN /\ apps' = [apps EXCEPT ![call[p].applicationId].status = "accepted",
                                    ![call[p].applicationId].respondedAt = DateOf(now)]
            /\ call' = [call EXCEPT ![p].pc = "cascade"]
       ELSE /\ apps' = apps
            /\ call' = [call EXCEPT ![p] = Finish(@, "DOCUMENT_NOT_FOUND")]
    /\ UNCHANGED <<jobs, nextJobId, nextAppId, stats, now, gam, ledger, catalog, auth>>

\* acceptApplication, step 3: Application.updateMany rejects the job's other
\* pending applications, and the call returns.
AcceptCascade(p) ==
    /\ call[p].pc = "cascade"
    /\ apps' = RejectOtherPending(apps, call[p].jobId, call[p].applicationId, now)
    /\ call' = [call EXCEPT ![p] = Finish(@, Ok)]
    /\ UNCHANGED <<jobs, nextJobId, nextAppId, stats, now, gam, ledger, catalog, auth>>

\* rejectApplication, step 1: Application.findById(id).populate('jobId') and
\* the checks on the loaded documents.
RejectFind(p, a, u) ==
    /\ call[p].pc = "idle"
    /\ LET err == rejectApplication(apps, jobs, a, u, now).err
           c   == [IdleCall EXCEPT !.applicationId = a, !.userId = u]
       IN  call' = [call EXCEPT ![p] =
                       IF err = Ok
                       THEN [c EXCEPT !.pc = "rejectSave", !.jobId = apps[a].jobId]
                       ELSE Finish(c, err)]
    /\ UNCHANGED <<jobs, nextJobId, apps, nextAppId, stats, now, gam, ledger, catalog, auth>>

\* rejectApplication, step 2: application.save() writes status and
\* respondedAt of the loaded document, and the call returns.
RejectSave(p) ==
    /\ call[p].pc = "rejectSave"
    /\ IF call[p].applicationId \in DOMAIN apps
       THEN /\ apps' = [apps EXCEPT ![call[p].applicationId].status = "rejected",
                                    ![call[p].applicationId].respondedAt = DateOf(now)]
            /\ call' = [call EXCEPT ![p] = Finish(@, Ok)]
       ELSE /\ apps' = apps
            /\ call' = [call EXCEPT ![p] = Finish(@, "DOCUMENT_NOT_FOUND")]
    /\ UNCHANGED <<jobs, nextJobId, nextAppId, stats, now, gam, ledger, catalog, auth>>

\* withdrawApplication, step 1: Application.findById and the checks on the
\* loaded document.
WithdrawFind(p, a, u) ==
    /\ call[p].pc = "idle"
    /\ LET err == withdrawApplication(apps, jobs, a, u).err
           c   == [IdleCall EXCEPT !.applicationId = a, !.userId = u]
       IN  call' = [call EXCEPT ![p] =
                       IF err = Ok
                       THEN [c EXCEPT !.pc = "withdrawSave", !.jobId = apps[a].jobId]
                       ELSE Finish(c, err)]
    /\ UNCHANGED <<jobs, nextJobId, apps, nextAppId, stats, now, gam, ledger, catalog, auth>>

\* withdrawApplication, step 2: application.save() writes the status of the
\* loaded document.
WithdrawSave(p) ==
    /\ call[p].pc = "withdrawSave"
    /\ IF call[p].applicationId \in DOMAIN apps
       THEN /\ apps' = [apps EXCEPT ![call[p].applicationId].status = "withdrawn"]
            /\ call' = [call EXCEPT ![p].pc = "withdrawInc"]
       ELSE /\ apps' = apps
            /\ call' = [call EXCEPT ![p] = Finish(@, "DOCUMENT_NOT_FOUND")]
    /\ UNCHANGED <<jobs, nextJobId, nextAppId, stats, now, gam, ledger, catalog, auth>>

\* withdrawApplication, step 3: Job.findByIdAndUpdate decrements the job's
\* applicationsCount, and the call returns.
WithdrawInc(p) ==
    /\ call[p].pc = "withdrawInc"
    /\ jobs' = IncApplicationsCount(jobs, call[p].jobId, -1)
    /\ call' = [call EXCEPT ![p] = Finish(@, Ok)]
    /\ UNCHANGED <<nextJobId, apps, nextAppId, stats, now, gam, ledger, catalog, auth>>

\* completeJob, step 1: Job.findById and the checks on the loaded job; the
\* call keeps the client and the assigned freelancer of the loaded document.
CompleteFind(p, j, u) ==
    /\ call[p].pc = "idle"
    /\ LET err == completeJob(jobs, stats, j, u, now).err
           c   == [IdleCall EXCEPT !.jobId = j, !.userId = u]
       IN  call' = [call EXCEPT ![p] =
                       IF err = Ok
                       THEN [c EXCEPT !.pc = "completeSave",
                                      !.freelancerId = jobs[j].assignedFreelancerId]
                       ELSE Finish(c, err)]
    /\ UNCHANGED <<jobs, nextJobId, apps, nextAppId, stats, now, gam, ledger, catalog, auth>>

\* completeJob, step 2: job.save() writes status and completionDate of the
\* loaded document.
CompleteSave(p) ==
    /\ call[p].pc = "completeSave"
    /\ IF call[p].jobId \in DOMAIN jobs
       THEN /\ jobs' = [jobs EXCEPT ![call[p].jobId].status = "completed",
                                    ![call[p].jobId].completionDate = DateOf(now)]
            /\ call' = [call EXCEPT ![p].pc = "completeInc"]
       ELSE /\ jobs' = jobs
            /\ call' = [call EXCEPT ![p] = Finish(@, "DOCUMENT_NOT_FOUND")]
    /\ UNCHANGED <<nextJobId, apps, nextAppId, stats, now, gam, ledger, catalog, auth>>

\* completeJob, step 3: the two User.findByIdAndUpdate calls increment
\* jobsCompleted of the client and of the assigned freelancer (two atomic
\* updates of different documents, awaited together), and the call returns.
CompleteInc(p) ==
    /\ call[p].pc = "completeInc"
    /\ stats' = IncStat(IncStat(stats, call[p].userId, "jobsCompleted"),
                        call[p].freelancerId, "jobsCompleted")
    /\ call' = [call EXCEPT ![p] = Finish(@, Ok)]
    /\ UNCHANGED <<jobs, nextJobId, apps, nextAppId, now, gam, ledger, catalog, auth>>

\* recordActivity, step 1: User.findById; the call keeps the loaded user
\* document.
RecordLoad(p, u, type) ==
    /\ call[p].pc = "idle"
    /\ Len(ledger) + Cardinality({q \in Procs : call[q].pc = "recordCreate"}) < MaxEvents
    /\ LET c == [IdleCall EXCEPT !.userId = u, !.type = type] IN
         call' = [call EXCEPT ![p] =
                     IF u \in DOMAIN gam
                     THEN [c EXCEPT !.pc = "recordCreate", !.user = gam[u],
                                    !.jobsCompleted = stats[u].jobsCompleted]
                     ELSE Finish(c, "NOT_FOUND")]
    /\ UNCHANGED <<jobs, nextJobId, apps, nextAppId, stats, now, gam, ledger, catalog, auth>>

\* recordActivity, step 2: ActivityEvent.create stores the ledger event, or
\* throws when the type is not in the schema's enum.
RecordCreate(p) ==
    /\ call[p].pc = "recordCreate"
    /\ IF call[p].type \in ActivityType
       THEN /\ ledger' = Append(ledger,
                                [userId |-> call[p].userId, type |-> call[p].type,
                                 points |-> getPointsForActivity(call[p].type),
                                 date |-> now])
            /\ call' = [call EXCEPT ![p].pc = "recordSave"]
       ELSE /\ ledger' = ledger
            /\ call' = [call EXCEPT ![p] = Finish(@, "VALIDATION_ERROR")]
    /\ UNCHANGED <<jobs, nextJobId, apps, nextAppId, stats, now, gam, catalog, auth>>

\* recordActivity, step 3: the points, the streak and the achievements are
\* computed on the loaded document (Achievement.find reads the collection,
\* which no request changes), and user.save() writes the paths that the call
\* modified: $set for the scalar fields whose value it changed, $push for
\* the achievement ids it appended.  The other paths keep what is stored.
RecordSave(p) ==
    /\ call[p].pc = "recordSave"
    /\ LET u      == call[p].userId
           loaded == call[p].user
           g1 == [loaded EXCEPT !.totalPoints = @ + getPointsForActivity(call[p].type)]
           g2 == updateStreak(g1, now)
           g3 == checkAchievements(g2, call[p].jobsCompleted, ActiveAchievements, 1)
           Written(field) == IF g3[field] # loaded[field] THEN g3[field]
                             ELSE gam[u][field]
       IN  gam' = [gam EXCEPT ![u] =
                      [currentStreak    |-> Written("currentStreak"),
                       longestStreak    |-> Written("longestStreak"),
                       lastActivityDate |-> Written("lastActivityDate"),
                       totalPoints      |-> Written("totalPoints"),
                       level            |-> gam[u].level,
                       achievements     |->
                           gam[u].achievements \o
                           SubSeq(g3.achievements, Len(loaded.achievements) + 1,
                                  Len(g3.achievements))]]
    /\ call' = [call EXCEPT ![p] = Finish(@, Ok)]
    /\ UNCHANGED <<jobs, nextJobId, apps, nextAppId, stats, now, ledger, catalog, auth>>

\* createApplication, step 1: Job.findById and the checks on the job.
CreateFindJob(p, f, j) ==
    /\ call[p].pc \in {"idle", "done"}
    /\ role(f) = "freelancer"
    /\ LET c == [IdleCall EXCEPT !.userId = f, !.jobId = j] IN
         call' = [call EXCEPT ![p] =
                     IF j \notin DOMAIN jobs THEN Finish(c, "NOT_FOUND")
                     ELSE IF jobs[j].status # "open" THEN Finish(c, "JOB_NOT_OPEN")
                     ELSE IF jobs[j].clientId = f THEN Finish(c, "CANNOT_APPLY_OWN_JOB")
                     ELSE [c EXCEPT !.pc = "findOne"]]
    /\ UNCHANGED <<jobs, nextJobId, apps, nextAppId, stats, now, gam, ledger, catalog, auth>>

\* createApplication, step 2: Application.findOne({jobId, freelancerId}).
CreateFindExisting(p) ==
    /\ call[p].pc = "findOne"
    /\ call' = [call EXCEPT ![p] =
                   IF AppsOf(apps, call[p].jobId, call[p].userId) # {}
                   THEN Finish(@, "ALREADY_APPLIED")
                   ELSE [@ EXCEPT !.pc = "create"]]
    /\ UNCHANGED <<jobs, nextJobId, apps, nextAppId, stats, now, gam, ledger, catalog, auth>>

\* createApplication, step 3: Application.create, which the unique index on
\* (jobId, freelancerId) refuses with a duplicate-key error.
CreateInsert(p) ==
    /\ call[p].pc = "create"
    /\ nextAppId <= MaxApps
    /\ IF UniqueIndexAllows(apps, call[p].jobId, call[p].userId)
       THEN /\ apps' = InsertApplication(apps, nextAppId, call[p].jobId,
                                         call[p].userId, now)
            /\ nextAppId' = nextAppId + 1
            /\ call' = [call EXCEPT ![p].pc = "inc", ![p].applicationId = nextAppId]
       ELSE /\ UNCHANGED <<apps, nextAppId>>
            /\ call' = [call EXCEPT ![p] = Finish(@, "DUPLICATE_KEY")]
    /\ UNCHANGED <<jobs, nextJobId, stats, now, gam, ledger, catalog, auth>>

\* createApplication, step 4: Job.findByIdAndUpdate increments the job's
\* applicationsCount, and the call returns.
CreateInc(p) ==
    /\ call[p].pc = "inc"
    /\ jobs' = IncApplicationsCount(jobs, call[p].jobId, 1)
    /\ call' = [call EXCEPT ![p] = Finish(@, Ok)]
    /\ UNCHANGED <<nextJobId, apps, nextAppId, stats, now, gam, ledger, catalog, auth>>

Init ==
    /\ jobs = <<>>
    /\ nextJobId = 1
    /\ apps = <<>>
    /\ nextAppId = 1
    /\ stats = [u \in Users |-> [jobsPosted |-> 0, jobsCompleted |-> 0]]
    /\ now = 0
    /\ call = [p \in Procs |-> IdleCall]
    /\ gam = [u \in Users |->
                [currentStreak |-> 0, longestStreak |-> 0,
                 lastActivityDate |-> NoDate, totalPoints |-> 0, level |-> 1,
                 achievements |-> <<>>]]
    /\ ledger = <<>>
    /\ catalog = Catalog
    /\ auth = [u \in Users |-> VerifiedAccount]

\* The job manager alone, every user calling.
JobNext ==
    \/ \E c \in Users : CreateJob(c)
    \/ \E j \in JobIds, u \in Users, d \in UpdateJobDTO : UpdateJob(j, u, d)
    \/ \E j \in JobIds, u \in Users : PublishJob(j, u)
    \/ \E j \in JobIds, u \in Users, f \in Users \cup {NoId} : AssignFreelancer(j, u, f)
    \/ \E j \in JobIds, u \in Users : CompleteJob(j, u)
    \/ \E j \in JobIds, u \in Users : CancelJob(j, u)
    \/ \E j \in JobIds, u \in Users : DeleteJob(j, u)

ApplicationNext ==
    \/ \E f \in Users, j \in JobIds : CreateApplication(f, j)
    \/ \E a \in AppIds, u \in Users : AcceptApplication(a, u)
    \/ \E a \in AppIds, u \in Users : RejectApplication(a, u)
    \/ \E a \in AppIds, u \in Users : WithdrawApplication(a, u)
    \/ \E a \in AppIds, u \in Users : DeleteApplication(a, u)

SpecJobs == Init /\ [][JobNext]_vars

\* Both managers.  Jobs are posted by the client-role users here.
Next ==
    \/ \E c \in {u \in Users : role(u) = "client"} : CreateJob(c)
    \/ \E j \in JobIds, u \in Users : PublishJob(j, u)
    \/ \E j \in JobIds, u \in Users, f \in Users \cup {NoId} : AssignFreelancer(j, u, f)
    \/ \E j \in JobIds, u \in Users : CompleteJob(j, u)
    \/ \E j \in JobIds, u \in Users : CancelJob(j, u)
    \/ \E j \in JobIds, u \in Users : DeleteJob(j, u)
    \/ ApplicationNext
    \/ \E j \in JobIds, u \in Users, d \in UpdateJobDTO : UpdateJob(j, u, d)

Spec == Init /\ [][Next]_vars

\* The application manager with its update call, on jobs that one client
\* posts, publishes, assigns and cancels.
AppsNext ==
    \/ CreateJob("c1")
    \/ \E j \in JobIds : PublishJob(j, "c1")
    \/ \E j \in JobIds, f \in Freelancers : AssignFreelancer(j, "c1", f)
    \/ \E j \in JobIds : CancelJob(j, "c1")
    \/ ApplicationNext
    \/ \E a \in AppIds, u \in Users, d \in UpdateApplicationDTO :
           UpdateApplication(a, u, d)

SpecApps == Init /\ [][AppsNext]_vars

\* Two requests, one acceptApplication call each, on the jobs and
\* applications that were stored before the first of the two calls began.
AcceptRaceNext ==
    \/ \E c \in Users : NoCallStarted /\ CreateJob(c)
    \/ \E j \in JobIds, u \in Users : NoCallStarted /\ PublishJob(j, u)
    \/ \E f \in Users, j \in JobIds : NoCallStarted /\ CreateApplication(f, j)
    \/ \E p \in Procs, a \in AppIds, u \in Users : AcceptFind(p, a, u)
    \/ \E p \in Procs : AcceptSave(p)
    \/ \E p \in Procs : AcceptCascade(p)

\* Two requests, one of acceptApplication, rejectApplication and
\* withdrawApplication each, on the applications of the jobs of one client
\* that were stored before the first of the two calls began.
StatusRaceNext ==
    \/ NoCallStarted /\ CreateJob("c1")
    \/ \E j \in JobIds : NoCallStarted /\ PublishJob(j, "c1")
    \/ \E f \in Users, j \in JobIds : NoCallStarted /\ CreateApplication(f, j)
    \/ \E p \in Procs, a \in AppIds, u \in Users : AcceptFind(p, a, u)
    \/ \E p \in Procs : AcceptSave(p)
    \/ \E p \in Procs : AcceptCascade(p)
    \/ \E p \in Procs, a \in AppIds, u \in Users : RejectFind(p, a, u)
    \/ \E p \in Procs : RejectSave(p)
    \/ \E p \in Procs, a \in AppIds, u \in Users : WithdrawFind(p, a, u)
    \/ \E p \in Procs : WithdrawSave(p)
    \/ \E p \in Procs : WithdrawInc(p)

SpecStatusRace == Init /\ [][StatusRaceNext]_vars

\* Two requests, one completeJob call each, on the jobs that were stored
\* before the first of the two calls began.
CompleteRaceNext ==
    \/ \E c \in Users : NoCallStarted /\ CreateJob(c)
    \/ \E j \in JobIds, u \in Users : NoCallStarted /\ PublishJob(j, u)
    \/ \E j \in JobIds, u, f \in Users : NoCallStarted /\ AssignFreelancer(j, u, f)
    \/ \E p \in Procs, j \in JobIds, u \in Users : CompleteFind(p, j, u)
    \/ \E p \in Procs : CompleteSave(p)
    \/ \E p \in Procs : CompleteInc(p)

SpecCompleteRace == Init /\ [][CompleteRaceNext]_vars

\* The gamification engine: activities of two users, and of an id that
\* names no user, as the clock advances.
GamNext ==
    \/ \E gap \in Gaps : Tick(gap)
    \/ \E u \in {"f1", "f2", NoId}, type \in {"login", "job_completed", "review_left"} :
           RecordActivity(u, type)

\* The same collection with every achievement deactivated.
CatalogInactive ==
    [i \in 1..Len(Catalog) |-> [Catalog[i] EXCEPT !.isActive = FALSE]]

\* A collection in which a total_points achievement stands between two
\* others that need the points it gives.
CatalogChain ==
    << [id |-> "early100", type |-> "total_points", target |-> 100, points |-> 10,
        isActive |-> TRUE],
       [id |-> "points50", type |-> "total_points", target |-> 50, points |-> 50,
        isActive |-> TRUE],
       [id |-> "late100", type |-> "total_points", target |-> 100, points |-> 20,
        isActive |-> TRUE] >>

\* Users without activity, after c1 posted one job that f1 completed, and
\* one of the three Achievement collections.
InitGam ==
    /\ jobs = <<>>
    /\ nextJobId = 1
    /\ apps = <<>>
    /\ nextAppId = 1
    /\ stats = [u \in Users |->
                  [jobsPosted    |-> IF u = "c1" THEN 1 ELSE 0,
                   jobsCompleted |-> IF u \in {"c1", "f1"} THEN 1 ELSE 0]]
    /\ now = 0
    /\ call = [p \in Procs |-> IdleCall]
    /\ gam = [u \in Users |->
                [currentStreak |-> 0, longestStreak |-> 0,
                 lastActivityDate |-> NoDate, totalPoints |-> 0, level |-> 1,
                 achievements |-> <<>>]]
    /\ ledger = <<>>
    /\ catalog \in {Catalog, CatalogInactive, CatalogChain}
    /\ auth = [u \in Users |-> VerifiedAccount]

SpecGam == InitGam /\ [][GamNext]_vars

\* Two requests, one recordActivity call each.
RecordRaceNext ==
    \/ \E gap \in Gaps : Tick(gap)
    \/ \E p \in Procs, u \in {"f1", "f2", NoId},
          type \in {"login", "job_completed", "review_left"} : RecordLoad(p, u, type)
    \/ \E p \in Procs : RecordCreate(p)
    \/ \E p \in Procs : RecordSave(p)

SpecRecordRace == InitGam /\ [][RecordRaceNext]_vars

\* The sessions of a user: one service call per step.
AuthNext ==
    \/ \E gap \in AuthGaps : AuthTick(gap)
    \/ \E u \in AuthUsers \cup {NoId}, pw \in Passwords : Login(u, pw)
    \/ \E u \in AuthUsers, tok \in TokenInputs : Logout(u, tok)
    \/ \E tok \in TokenInputs : RefreshAccessToken(tok)
    \/ \E u \in AuthUsers \cup {NoId}, r \in ResetTokens : ForgotPassword(u, r)
    \/ \E r \in ResetTokens, pw \in Passwords : ResetPassword(r, pw)
    \/ \E u \in AuthUsers, cur, new \in Passwords : ChangePassword(u, cur, new)
    \/ \E u \in AuthUsers : DeleteUser(u)

SpecAuth == Init /\ [][AuthNext]_vars

SpecAcceptRace == Init /\ [][AcceptRaceNext]_vars

\* Two requests calling createApplication again and again, on jobs that are
\* posted and published meanwhile.
CreateRaceNext ==
    \/ \E c \in Users : CreateJob(c)
    \/ \E j \in JobIds, u \in Users : PublishJob(j, u)
    \/ \E p \in Procs, f \in Users, j \in JobIds : CreateFindJob(p, f, j)
    \/ \E p \in Procs : CreateFindExisting(p)
    \/ \E p \in Procs : CreateInsert(p)
    \/ \E p \in Procs : CreateInc(p)

SpecCreateRace == Init /\ [][CreateRaceNext]_vars

(***************************************************************************)
(* Properties of the job lifecycle manager.                                *)
(***************************************************************************)
\* C5: a successful updateJob leaves the job's status, assignedFreelancerId
\* and clientId as they were, whatever the payload and the job's status.
C5_UpdateJobKeepsLifecycle ==
    \A j \in DOMAIN jobs, u \in Users, d \in UpdateJobDTO :
        LET r == updateJob(jobs, j, u, d) IN
            r.err = Ok =>
                /\ r.jobs[j].status = jobs[j].status
                /\ r.jobs[j].assignedFreelancerId = jobs[j].assignedFreelancerId
                /\ r.jobs[j].clientId = jobs[j].clientId

\* C6: called by the owner, assignFreelancer succeeds only on an open job; on
\* a job in any other status it fails with CANNOT_ASSIGN_JOB and the stored
\* jobs (status, assignedFreelancerId, startDate) are left as they were.
C6_AssignOnlyWhenOpen ==
    \A j \in DOMAIN jobs, f \in Users \cup {NoId} :
        LET r == assignFreelancer(jobs, j, jobs[j].clientId, f, now) IN
            /\ r.err = Ok => jobs[j].status = "open"
            /\ jobs[j].status # "open" =>
                   /\ r.err = "CANNOT_ASSIGN_JOB"
                   /\ r.jobs = jobs

C6_Witness ==
    \E j \in DOMAIN jobs, f \in Freelancers :
        /\ jobs[j].status = "in_progress"
        /\ jobs[j].assignedFreelancerId \in Freelancers \ {f}
        /\ assignFreelancer(jobs, j, jobs[j].clientId, f, now).err = "CANNOT_ASSIGN_JOB"

\* C7: called by the owner, publishJob succeeds exactly from draft (to open),
\* completeJob exactly from in_progress (to completed), deleteJob exactly from
\* draft (the job is removed) and cancelJob from every status but completed
\* (to cancelled); in any other status each fails with its state error and
\* leaves the jobs and the user counters as they were.
C7_JobTransitionGuards ==
    \A j \in DOMAIN jobs :
        LET c  == jobs[j].clientId
            st == jobs[j].status
            p  == publishJob(jobs, j, c)
            k  == completeJob(jobs, stats, j, c, now)
            x  == cancelJob(jobs, j, c)
            d  == deleteJob(jobs, j, c)
        IN  /\ IF st = "draft"
               THEN p.err = Ok /\ p.jobs = [jobs EXCEPT ![j].status = "open"]
               ELSE p.err = "CANNOT_PUBLISH_JOB" /\ p.jobs = jobs
            /\ IF st = "in_progress"
               THEN /\ k.err = Ok
                    /\ k.jobs[j].status = "completed"
                    /\ \A i \in DOMAIN jobs \ {j} : k.jobs[i] = jobs[i]
               ELSE /\ k.err = "CANNOT_COMPLETE_JOB"
                    /\ k.jobs = jobs
                    /\ k.stats = stats
            /\ IF st = "draft"
               THEN /\ d.err = Ok
                    /\ DOMAIN d.jobs = DOMAIN jobs \ {j}
                    /\ \A i \in DOMAIN d.jobs : d.jobs[i] = jobs[i]
               ELSE d.err = "CANNOT_DELETE_JOB" /\ d.jobs = jobs
            /\ IF st # "completed"
               THEN x.err = Ok /\ x.jobs = [jobs EXCEPT ![j].status = "cancelled"]
               ELSE x.err = "CANNOT_CANCEL_JOB" /\ x.jobs = jobs

C7_Witness ==
    \E j \in DOMAIN jobs :
        /\ jobs[j].status = "completed"
        /\ cancelJob(jobs, j, jobs[j].clientId).err = "CANNOT_CANCEL_JOB"
        /\ publishJob(jobs, j, jobs[j].clientId).err = "CANNOT_PUBLISH_JOB"
        /\ deleteJob(jobs, j, jobs[j].clientId).err = "CANNOT_DELETE_JOB"
        /\ completeJob(jobs, stats, j, jobs[j].clientId, now).err = "CANNOT_COMPLETE_JOB"

\* C8: once a job is completed, no call of the job manager by any user changes
\* its status or removes it; a cancelled job never gets another status.
C8_CompletedIsTerminal ==
    [][\A j \in DOMAIN jobs :
          /\ jobs[j].status = "completed" =>
                 j \in DOMAIN jobs' /\ jobs'[j].status = "completed"
          /\ jobs[j].status = "cancelled" =>
                 (j \in DOMAIN jobs' => jobs'[j].status = "cancelled")]_vars

C8_Witness ==
    \E i, j \in DOMAIN jobs :
        jobs[i].status = "completed" /\ jobs[j].status = "cancelled"

\* C9: from any state, createJob by c (a fresh draft, c's jobsPosted + 1),
\* then publish, assign(f) and complete by c, f a freelancer, all succeed and
\* end with the job completed, assigned to f, jobsCompleted of c and of f one
\* higher each and nobody else's changed.
C9_LifecycleScenario ==
    \A c \in {u \in Users : role(u) \in {"client", "admin"}}, f \in Freelancers :
        LET j  == nextJobId
            r1 == createJob(jobs, stats, j, c)
            r2 == publishJob(r1.jobs, j, c)
            r3 == assignFreelancer(r2.jobs, j, c, f, now)
            r4 == completeJob(r3.jobs, r1.stats, j, c, now)
        IN  /\ r1.err = Ok /\ r2.err = Ok /\ r3.err = Ok /\ r4.err = Ok
            /\ r1.jobs[j].status = "draft"
            /\ r1.stats[c].jobsPosted = stats[c].jobsPosted + 1
            /\ r2.jobs[j].status = "open"
            /\ r3.jobs[j].status = "in_progress"
            /\ r3.jobs[j].assignedFreelancerId = f
            /\ r4.jobs[j].status = "completed"
            /\ r4.jobs[j].assignedFreelancerId = f
            /\ r4.stats[c].jobsCompleted = stats[c].jobsCompleted + 1
            /\ r4.stats[f].jobsCompleted = stats[f].jobsCompleted + 1
            /\ \A u \in Users \ {c, f} :
                   r4.stats[u].jobsCompleted = stats[u].jobsCompleted

C9_Witness ==
    \E j \in DOMAIN jobs :
        /\ jobs[j].status = "completed"
        /\ jobs[j].assignedFreelancerId \in Freelancers
        /\ jobs[j].startDate # NoDate /\ jobs[j].completionDate # NoDate
        /\ stats[jobs[j].clientId].jobsPosted >= 1
        /\ stats[jobs[j].clientId].jobsCompleted = 1
        /\ stats[jobs[j].assignedFreelancerId].jobsCompleted = 1

(***************************************************************************)
(* Properties of the application lifecycle manager.                        *)
(***************************************************************************)
\* C1: when acceptApplication succeeds on application a of job J, a was
\* pending and becomes accepted with respondedAt set; every other application
\* of J that was pending becomes rejected with respondedAt set; every other
\* stored application (not pending, or of another job) is left as it was.
C1_AcceptRejectsCompetitors ==
    \A a \in DOMAIN apps, u \in Users :
        LET r == acceptApplication(apps, jobs, a, u, now) IN
            r.err = Ok =>
                /\ apps[a].status = "pending"
                /\ DOMAIN r.apps = DOMAIN apps
                /\ r.apps[a].status = "accepted"
                /\ r.apps[a].respondedAt = DateOf(now)
                /\ \A b \in DOMAIN apps \ {a} :
                       IF apps[b].jobId = apps[a].jobId /\ apps[b].status = "pending"
                       THEN /\ r.apps[b].status = "rejected"
                            /\ r.apps[b].respondedAt = DateOf(now)
                       ELSE r.apps[b] = apps[b]

\* Two pending applications of one job: accepting one rejects the other.
C1_Witness ==
    \E a, b \in DOMAIN apps :
        /\ a # b
        /\ apps[a].jobId = apps[b].jobId
        /\ apps[b].status = "pending"
        /\ apps[a].jobId \in DOMAIN jobs
        /\ LET r == acceptApplication(apps, jobs, a, jobs[apps[a].jobId].clientId, now) IN
              r.err = Ok /\ r.apps[b].status = "rejected"

\* C4 as claimed: whenever an application for (J, f) is stored, in whatever
\* status, createApplication(f, J) fails with the 409 ALREADY_APPLIED and
\* changes nothing.
C4_DuplicateIsConflict ==
    \A f \in Users, j \in JobIds :
        AppsOf(apps, j, f) # {} =>
            LET r == createApplication(apps, jobs, nextAppId, f, j, now) IN
                r.err = "ALREADY_APPLIED" /\ r.apps = apps /\ r.jobs = jobs

\* C4 amended: whenever an application for (J, f) is stored, in whatever
\* status, createApplication(f, J) fails and changes nothing, and the error
\* is the 409 ALREADY_APPLIED when J is still open; once f has deleted that
\* application, createApplication(f, J) on an open job succeeds and stores
\* a pending application.
C4_DuplicateFails ==
    \A f \in Users, j \in JobIds :
        \A a \in AppsOf(apps, j, f) :
            LET r == createApplication(apps, jobs, nextAppId, f, j, now)
                d == deleteApplication(apps, jobs, a, f)
                c == createApplication(d.apps, d.jobs, nextAppId, f, j, now)
            IN  /\ r.err # Ok /\ r.apps = apps /\ r.jobs = jobs
                /\ (j \in DOMAIN jobs /\ jobs[j].status = "open")
                       => r.err = "ALREADY_APPLIED"
                /\ d.err = Ok
                /\ (j \in DOMAIN jobs /\ jobs[j].status = "open")
                       => /\ c.err = Ok
                          /\ c.apps[nextAppId].status = "pending"
                          /\ c.apps[nextAppId].jobId = j
                          /\ c.apps[nextAppId].freelancerId = f

\* A freelancer whose earlier application was rejected applies again.
C4_Witness ==
    \E a \in DOMAIN apps :
        /\ apps[a].status = "rejected"
        /\ apps[a].jobId \in DOMAIN jobs
        /\ jobs[apps[a].jobId].status = "open"
        /\ createApplication(apps, jobs, nextAppId, apps[a].freelancerId,
                             apps[a].jobId, now).err = "ALREADY_APPLIED"

\* C18: in every state reached by atomic createApplication,
\* withdrawApplication, deleteApplication, acceptApplication and
\* rejectApplication calls, applicationsCount of every job is >= 0.
C18_CountNonNegative ==
    \A j \in DOMAIN jobs : jobs[j].applicationsCount >= 0

\* C19: createApplication succeeds only on a stored, open job whose client
\* is not the caller, and then stores a pending application of the caller
\* and raises applicationsCount of the job by 1, leaving the rest; on an
\* absent job it fails with NotFound, on a job that is not open or is the
\* caller's own it fails, and a failed call leaves applications and jobs
\* as they were.
C19_CreateApplicationGuards ==
    \A f \in Users, j \in JobIds :
        LET r == createApplication(apps, jobs, nextAppId, f, j, now) IN
        /\ r.err = Ok =>
              /\ j \in DOMAIN jobs
              /\ jobs[j].status = "open"
              /\ jobs[j].clientId # f
              /\ DOMAIN r.apps = DOMAIN apps \cup {nextAppId}
              /\ \A a \in DOMAIN apps : r.apps[a] = apps[a]
              /\ r.apps[nextAppId].status = "pending"
              /\ r.apps[nextAppId].jobId = j
              /\ r.apps[nextAppId].freelancerId = f
              /\ DOMAIN r.jobs = DOMAIN jobs
              /\ r.jobs[j].applicationsCount = jobs[j].applicationsCount + 1
              /\ \A k \in DOMAIN jobs \ {j} : r.jobs[k] = jobs[k]
        /\ j \notin DOMAIN jobs => r.err = "NOT_FOUND"
        /\ (j \in DOMAIN jobs /\ (jobs[j].status # "open" \/ jobs[j].clientId = f))
              => r.err # Ok
        /\ r.err # Ok => (r.apps = apps /\ r.jobs = jobs)

\* An application was created (its job counts it) for an open job, which
\* its client cannot apply to, and another job is no longer open.
C19_Witness ==
    /\ \E a \in DOMAIN apps :
          /\ apps[a].status = "pending"
          /\ apps[a].jobId \in DOMAIN jobs
          /\ jobs[apps[a].jobId].status = "open"
          /\ jobs[apps[a].jobId].applicationsCount = 1
          /\ createApplication(apps, jobs, nextAppId, jobs[apps[a].jobId].clientId,
                               apps[a].jobId, now).err = "CANNOT_APPLY_OWN_JOB"
    /\ \E j \in DOMAIN jobs, f \in Freelancers :
          /\ jobs[j].status \in {"in_progress", "cancelled"}
          /\ createApplication(apps, jobs, nextAppId, f, j, now).err = "JOB_NOT_OPEN"

\* C20: acceptApplication succeeds only when the caller is the client of
\* the application's job, the job is open and the application is pending;
\* on a stored job a caller who is not its client gets Forbidden, its client
\* gets a state error when the job is not open or the application is not
\* pending; a failed call changes no application.  So an accept never takes
\* effect on a job that is draft, in_progress, completed or cancelled.
C20_AcceptGuards ==
    \A a \in AppIds, u \in Users :
        LET r == acceptApplication(apps, jobs, a, u, now) IN
        /\ r.err = Ok =>
              /\ a \in DOMAIN apps
              /\ apps[a].jobId \in DOMAIN jobs
              /\ jobs[apps[a].jobId].clientId = u
              /\ jobs[apps[a].jobId].status = "open"
              /\ apps[a].status = "pending"
        /\ r.err # Ok => r.apps = apps
        /\ (a \in DOMAIN apps /\ apps[a].jobId \in DOMAIN jobs) =>
              LET job == jobs[apps[a].jobId] IN
              /\ job.clientId # u => r.err = "FORBIDDEN"
              /\ (job.clientId = u /\ (job.status # "open" \/ apps[a].status # "pending"))
                    => r.err \in {"JOB_NOT_OPEN", "APPLICATION_NOT_PENDING"}
              /\ job.status \in {"draft", "in_progress", "completed", "cancelled"}
                    => r.err # Ok

\* One application was accepted; another, pending, belongs to a job that has
\* left open, and its client's accept is refused.
C20_Witness ==
    \E a, b \in DOMAIN apps :
        /\ apps[a].status = "accepted"
        /\ apps[b].status = "pending"
        /\ apps[b].jobId \in DOMAIN jobs
        /\ jobs[apps[b].jobId].status \in {"in_progress", "cancelled"}
        /\ acceptApplication(apps, jobs, b, jobs[apps[b].jobId].clientId, now).err
               = "JOB_NOT_OPEN"

(***************************************************************************)
(* Properties of concurrent requests.                                      *)
(***************************************************************************)
AcceptedOf(j) == {a \in DOMAIN apps : apps[a].jobId = j /\ apps[a].status = "accepted"}

\* C2: two acceptApplication calls on two different pending applications of
\* one open job never both succeed: once both calls have returned, at most
\* one application of the job is accepted.
C2_AtMostOneAcceptWins ==
    (\A p \in Procs : call[p].pc = "done") =>
        /\ \A j \in JobIds : Cardinality(AcceptedOf(j)) <= 1
        /\ ~ /\ call["p1"].outcome = Ok /\ call["p2"].outcome = Ok
              /\ call["p1"].applicationId # call["p2"].applicationId
              /\ call["p1"].jobId = call["p2"].jobId

\* C3: the store never holds two applications of one (jobId, freelancerId)
\* pair, and a job's applicationsCount is the number of its applications
\* inserted, less those whose createApplication call has not incremented yet.
C3_OneApplicationPerPair ==
    /\ \A a, b \in DOMAIN apps :
          (apps[a].jobId = apps[b].jobId /\ apps[a].freelancerId = apps[b].freelancerId)
              => a = b
    /\ \A j \in DOMAIN jobs :
          jobs[j].applicationsCount =
              Cardinality({a \in DOMAIN apps : apps[a].jobId = j})
              - Cardinality({p \in Procs : call[p].pc = "inc" /\ call[p].jobId = j})

\* Both calls passed the findOne check; the index refused the second insert.
C3_Witness ==
    \E p, q \in Procs :
        /\ call[p].outcome = "DUPLICATE_KEY"
        /\ call[q].outcome = Ok
        /\ call[q].jobId = call[p].jobId /\ call[q].userId = call[p].userId
        /\ jobs[call[p].jobId].applicationsCount = 1

(***************************************************************************)
(* Properties of the gamification engine.                                  *)
(***************************************************************************)
\* C10: for every user, longestStreak >= currentStreak in every state
\* reached from new users by recordActivity calls, whatever the gaps.
C10_LongestAtLeastCurrent ==
    \A u \in Users : gam[u].longestStreak >= gam[u].currentStreak

\* A streak of two or more days that was then broken.
C10_Witness ==
    \E u \in Users :
        /\ gam[u].currentStreak = 1
        /\ gam[u].longestStreak >= 2
        /\ Len(ledger) >= 3

\* C11: after every recordActivity call the level stored on the user
\* (gamification.level) and the level returned by getUserGamificationStats
\* both equal floor(totalPoints / 100) + 1.
C11_LevelTracksPoints ==
    \A u \in Users :
        /\ gam[u].level = (gam[u].totalPoints \div 100) + 1
        /\ getUserGamificationStats(gam, u).level = (gam[u].totalPoints \div 100) + 1

\* The ledger events of user u.
EventsOf(led, u) == SelectSeq(led, LAMBDA e : e.userId = u)

\* The sum of the points of u's ledger events, from index i on.
RECURSIVE LedgerPoints(_, _, _)
LedgerPoints(led, u, i) ==
    IF i > Len(led) THEN 0
    ELSE (IF led[i].userId = u THEN led[i].points ELSE 0) + LedgerPoints(led, u, i + 1)

\* achievement.points of the stored achievement with this id.
PointsOfAchievement(id) ==
    LET i == CHOOSE k \in 1..Len(catalog) : catalog[k].id = id IN catalog[i].points

\* The sum of the bonus points of a list of achievement ids, from index i on.
RECURSIVE BonusPoints(_, _)
BonusPoints(ids, i) ==
    IF i > Len(ids) THEN 0
    ELSE PointsOfAchievement(ids[i]) + BonusPoints(ids, i + 1)

\* C12: over any sequence of recordActivity calls no achievement id is twice
\* in a user's achievements, and every bonus is in totalPoints once:
\* totalPoints is the points of the user's ledger events plus one bonus per
\* achievement held.
C12_UnlockIdempotent ==
    \A u \in Users :
        LET ids == gam[u].achievements IN
        /\ \A i, j \in 1..Len(ids) : i # j => ids[i] # ids[j]
        /\ gam[u].totalPoints = LedgerPoints(ledger, u, 1) + BonusPoints(ids, 1)

\* A user who unlocked an achievement in the first call and was evaluated
\* again, with the criterion still met, in later calls.
C12_Witness ==
    \E u \in Users :
        /\ Len(EventsOf(ledger, u)) >= 3
        /\ EventsOf(ledger, u)[1].type = "job_completed"
        /\ InSeq("points50", gam[u].achievements)

\* C13: the first recordActivity of a user without lastActivityDate, of any
\* activity type, sets currentStreak = 1, longestStreak = 1 and
\* lastActivityDate = the time of the call.
C13_FirstActivityStartsStreak ==
    \A u \in Users, type \in ActivityType :
        gam[u].lastActivityDate = NoDate =>
            LET r == recordActivity(gam, stats, ledger, u, type, now) IN
            /\ r.err = Ok
            /\ r.gam[u].currentStreak = 1
            /\ r.gam[u].longestStreak = 1
            /\ r.gam[u].lastActivityDate = {now}

\* One user has had a first activity, later than time 0, and another user
\* is still without one.
C13_Witness ==
    /\ \E u \in Users :
        /\ Len(EventsOf(ledger, u)) = 1
        /\ EventsOf(ledger, u)[1].date > 0
        /\ gam[u].lastActivityDate = {EventsOf(ledger, u)[1].date}
        /\ gam[u].currentStreak = 1
    /\ \E v \in Users : gam[v].lastActivityDate = NoDate

\* C14: a recordActivity at least one and less than two whole days after
\* lastActivityDate increments currentStreak, sets longestStreak to the
\* maximum of its old value and the new currentStreak and sets
\* lastActivityDate to the time of the call; and no recordActivity ever
\* lowers longestStreak.
C14_NextDayIncrements ==
    \A u \in Users, type \in ActivityType :
        LET r == recordActivity(gam, stats, ledger, u, type, now)
            g == gam[u]
            h == r.gam[u]
        IN
        /\ r.err = Ok
        /\ h.longestStreak >= g.longestStreak
        /\ (/\ g.lastActivityDate # NoDate
            /\ now - TimeOf(g.lastActivityDate) >= MsPerDay
            /\ now - TimeOf(g.lastActivityDate) < 2 * MsPerDay)
           => /\ h.currentStreak = g.currentStreak + 1
              /\ h.longestStreak = IF g.longestStreak >= g.currentStreak + 1
                                   THEN g.longestStreak ELSE g.currentStreak + 1
              /\ h.lastActivityDate = {now}

\* A streak of two days whose second activity came more than 24 hours, and
\* less than 48, after the first.
C14_Witness ==
    \E u \in Users :
        /\ gam[u].currentStreak = 2
        /\ gam[u].longestStreak = 2
        /\ gam[u].lastActivityDate = {now}
        /\ \E i \in 1..Len(ledger) :
            /\ ledger[i].userId = u
            /\ now - ledger[i].date > MsPerDay
            /\ now - ledger[i].date < 2 * MsPerDay

\* C15: a recordActivity two or more whole days after lastActivityDate sets
\* currentStreak to 1, leaves longestStreak and sets lastActivityDate to the
\* time of the call.
C15_GapResetsStreak ==
    \A u \in Users, type \in ActivityType :
        (/\ gam[u].lastActivityDate # NoDate
         /\ now - TimeOf(gam[u].lastActivityDate) >= 2 * MsPerDay)
        => LET r == recordActivity(gam, stats, ledger, u, type, now) IN
           /\ r.err = Ok
           /\ r.gam[u].currentStreak = 1
           /\ r.gam[u].longestStreak = gam[u].longestStreak
           /\ r.gam[u].lastActivityDate = {now}

\* A two-day streak broken by an activity two days later.
C15_Witness ==
    \E u \in Users :
        /\ gam[u].currentStreak = 1
        /\ gam[u].longestStreak = 2
        /\ gam[u].lastActivityDate = {now}
        /\ Len(EventsOf(ledger, u)) = 3
        /\ now - EventsOf(ledger, u)[2].date >= 2 * MsPerDay

\* C16: a recordActivity less than one whole day after lastActivityDate
\* leaves currentStreak, longestStreak and lastActivityDate as they were,
\* appends the ledger event and adds the points of the activity.
C16_SameDayKeepsStreak ==
    \A u \in Users, type \in ActivityType :
        (/\ gam[u].lastActivityDate # NoDate
         /\ now - TimeOf(gam[u].lastActivityDate) < MsPerDay)
        => LET r == recordActivity(gam, stats, ledger, u, type, now) IN
           /\ r.err = Ok
           /\ r.gam[u].currentStreak = gam[u].currentStreak
           /\ r.gam[u].longestStreak = gam[u].longestStreak
           /\ r.gam[u].lastActivityDate = gam[u].lastActivityDate
           /\ Len(r.ledger) = Len(ledger) + 1
           /\ r.ledger[Len(r.ledger)].userId = u
           /\ r.ledger[Len(r.ledger)].type = type
           /\ r.ledger[Len(r.ledger)].date = now
           /\ r.gam[u].totalPoints >= gam[u].totalPoints + r.ledger[Len(r.ledger)].points
           /\ LedgerPoints(r.ledger, u, 1) > LedgerPoints(ledger, u, 1)

\* Two activities of one user 24 hours less a millisecond apart: the second
\* is in the ledger and lastActivityDate is still the time of the first.
C16_Witness ==
    \E u \in Users :
        /\ Len(EventsOf(ledger, u)) = 2
        /\ EventsOf(ledger, u)[2].date = EventsOf(ledger, u)[1].date + MsPerDay - 1
        /\ gam[u].lastActivityDate = {EventsOf(ledger, u)[1].date}
        /\ gam[u].currentStreak = 1
        /\ now = EventsOf(ledger, u)[2].date

\* The fixed points of the six activity types.
PointsTable ==
    [login |-> 5, job_posted |-> 10, application_sent |-> 15,
     application_accepted |-> 25, job_completed |-> 50, profile_updated |-> 5]

\* C17: a successful recordActivity(u, type) raises totalPoints by the table
\* value of type plus the points of the achievements unlocked in that call;
\* with no active achievement two job_completed activities a day apart
\* take a new user to 50 and then to 100 points, with currentStreak 2.
C17_PointsPerActivity ==
    \A u \in Users :
        /\ \A type \in ActivityType :
            LET r == recordActivity(gam, stats, ledger, u, type, now)
                unlocked == SubSeq(r.gam[u].achievements,
                                   Len(gam[u].achievements) + 1,
                                   Len(r.gam[u].achievements))
            IN
            /\ r.err = Ok
            /\ r.gam[u].totalPoints =
                   gam[u].totalPoints + PointsTable[type] + BonusPoints(unlocked, 1)
        /\ (ActiveAchievements = <<>> /\ EventsOf(ledger, u) = <<>>)
           => LET r1 == recordActivity(gam, stats, ledger, u, "job_completed", now)
                  r2 == recordActivity(r1.gam, stats, r1.ledger, u, "job_completed",
                                       now + MsPerDay)
              IN
              /\ r1.gam[u].totalPoints = 50
              /\ r2.gam[u].totalPoints = 100
              /\ r2.gam[u].currentStreak = 2

\* The scenario run: no active achievement, two job_completed activities a
\* day apart, 100 points and a streak of 2.
C17_Witness ==
    \E u \in Users :
        /\ ActiveAchievements = <<>>
        /\ Len(EventsOf(ledger, u)) = 2
        /\ \A i \in 1..2 : EventsOf(ledger, u)[i].type = "job_completed"
        /\ EventsOf(ledger, u)[2].date = EventsOf(ledger, u)[1].date + MsPerDay
        /\ gam[u].totalPoints = 100
        /\ gam[u].currentStreak = 2

(***************************************************************************)
(* Further properties of the application lifecycle manager.                *)
(***************************************************************************)
\* The errors that refuse a call because of the state of the job or of the
\* application.
StateErrors ==
    {"JOB_NOT_OPEN", "APPLICATION_NOT_PENDING", "CANNOT_WITHDRAW_APPLICATION",
     "CANNOT_UPDATE_APPLICATION"}

\* C21: on an application that is accepted, rejected or withdrawn, accept,
\* reject, withdraw and update fail for every caller, with a state error for
\* the caller entitled to the call, and change nothing; and no call on any
\* application changes such an application while it is stored.
C21_TerminalStatuses ==
    \A a \in DOMAIN apps :
        apps[a].status # "pending" =>
            /\ \A u \in Users :
                LET acc == acceptApplication(apps, jobs, a, u, now)
                    rej == rejectApplication(apps, jobs, a, u, now)
                    wdr == withdrawApplication(apps, jobs, a, u)
                    owner == apps[a].jobId \in DOMAIN jobs
                                 /\ jobs[apps[a].jobId].clientId = u
                IN
                /\ acc.err # Ok /\ acc.apps = apps
                /\ rej.err # Ok /\ rej.apps = apps
                /\ wdr.err # Ok /\ wdr.apps = apps /\ wdr.jobs = jobs
                /\ owner => (acc.err \in StateErrors /\ rej.err \in StateErrors)
                /\ apps[a].freelancerId = u => wdr.err \in StateErrors
                /\ \A d \in UpdateApplicationDTO :
                       LET upd == updateApplication(apps, a, u, d) IN
                       /\ upd.err # Ok /\ upd.apps = apps
                       /\ apps[a].freelancerId = u => upd.err \in StateErrors
            /\ \A b \in AppIds, u \in Users :
                LET kept(as) == a \in DOMAIN as => as[a] = apps[a] IN
                /\ kept(acceptApplication(apps, jobs, b, u, now).apps)
                /\ kept(rejectApplication(apps, jobs, b, u, now).apps)
                /\ kept(withdrawApplication(apps, jobs, b, u).apps)
                /\ kept(deleteApplication(apps, jobs, b, u).apps)
                /\ \A d \in UpdateApplicationDTO :
                       kept(updateApplication(apps, b, u, d).apps)
                /\ \A j \in JobIds :
                       kept(createApplication(apps, jobs, nextAppId, u, j, now).apps)

\* A rewritten application that was then accepted, beside a withdrawn one:
\* the client's reject and the freelancers' update and withdraw are refused.
C21_Witness ==
    \E a, b \in DOMAIN apps :
        /\ apps[a].status = "accepted"
        /\ apps[a].coverLetter = "v2"
        /\ apps[b].status = "withdrawn"
        /\ rejectApplication(apps, jobs, a, "c1", now).err = "APPLICATION_NOT_PENDING"
        /\ \E d \in UpdateApplicationDTO :
              updateApplication(apps, b, apps[b].freelancerId, d).err
                  = "CANNOT_UPDATE_APPLICATION"
        /\ withdrawApplication(apps, jobs, b, apps[b].freelancerId).err
               = "CANNOT_WITHDRAW_APPLICATION"

(***************************************************************************)
(* Further properties of the job lifecycle manager.                        *)
(***************************************************************************)
\* C22: publish, assign, complete, cancel, update and delete of a stored job
\* by a user who is not its clientId, an admin included, fail with Forbidden
\* in every status of the job and leave the jobs and the user counters as
\* they were; on a job id that is not stored they fail with NotFound.
C22_OnlyOwnerActsOnJob ==
    \A j \in JobIds, u \in Users :
        LET want == IF j \notin DOMAIN jobs THEN "NOT_FOUND"
                    ELSE IF jobs[j].clientId # u THEN "FORBIDDEN" ELSE Ok
            k == completeJob(jobs, stats, j, u, now)
            refused(r) == r.err = want /\ r.jobs = jobs
        IN
        want # Ok =>
            /\ refused(publishJob(jobs, j, u))
            /\ refused(cancelJob(jobs, j, u))
            /\ refused(deleteJob(jobs, j, u))
            /\ refused(k) /\ k.stats = stats
            /\ \A f \in Users \cup {NoId} : refused(assignFreelancer(jobs, j, u, f, now))
            /\ \A d \in UpdateJobDTO : refused(updateJob(jobs, j, u, d))

\* A completed job and a draft job of users other than the admin, who is
\* refused on both.
C22_Witness ==
    /\ \E j, k \in DOMAIN jobs :
          /\ jobs[j].status = "completed"
          /\ jobs[k].status = "draft"
          /\ cancelJob(jobs, j, "a1").err = "FORBIDDEN"
          /\ publishJob(jobs, k, "a1").err = "FORBIDDEN"

\* C23: once assignedFreelancerId of a stored job holds a freelancer id, no
\* job operation changes or clears it.
C23_AssignedOnce ==
    [][\A j \in DOMAIN jobs :
          (jobs[j].assignedFreelancerId # NoId /\ j \in DOMAIN jobs')
              => jobs'[j].assignedFreelancerId = jobs[j].assignedFreelancerId]_vars

\* C25: assignFreelancer by the owner of an open job, with a freelancerId
\* that names no user or a user who is not a freelancer, fails with
\* INVALID_FREELANCER and leaves the job as it was.
C25_AssignNeedsFreelancer ==
    \A j \in DOMAIN jobs, f \in (Users \cup {NoId}) \ {"f1", "f2"} :
        jobs[j].status = "open" =>
            LET r == assignFreelancer(jobs, j, jobs[j].clientId, f, now) IN
            /\ r.err = "INVALID_FREELANCER"
            /\ r.jobs = jobs
            /\ r.jobs[j].status = "open"
            /\ r.jobs[j].assignedFreelancerId = jobs[j].assignedFreelancerId
            /\ r.jobs[j].startDate = jobs[j].startDate

\* An open job whose owner is refused for an admin, for the owner itself and
\* for an id without user, beside a job that was assigned to a freelancer.
C25_Witness ==
    \E j, k \in DOMAIN jobs :
        /\ jobs[j].status = "open"
        /\ jobs[j].assignedFreelancerId = NoId
        /\ \A f \in {"a1", "c1", NoId} :
              assignFreelancer(jobs, j, jobs[j].clientId, f, now).err
                  = "INVALID_FREELANCER"
        /\ jobs[k].status = "in_progress"
        /\ jobs[k].assignedFreelancerId \in Freelancers

\* C24: a step of acceptApplication, rejectApplication,
\* withdrawApplication or updateApplication leaves the status and the
\* assignedFreelancerId of every job; the job of an application that the
\* step accepted is open after it, with the assignedFreelancerId (none,
\* unless an assign call came before) it had.
C24_ApplicationCallsKeepJob ==
    [][\A a \in AppIds, u \in Users :
          (\/ AcceptApplication(a, u)
           \/ RejectApplication(a, u)
           \/ WithdrawApplication(a, u)
           \/ \E d \in UpdateApplicationDTO : UpdateApplication(a, u, d))
          => /\ DOMAIN jobs' = DOMAIN jobs
             /\ \A j \in DOMAIN jobs :
                   /\ jobs'[j].status = jobs[j].status
                   /\ jobs'[j].assignedFreelancerId = jobs[j].assignedFreelancerId
             /\ (a \in DOMAIN apps /\ apps[a].status = "pending"
                   /\ apps'[a].status = "accepted")
                => /\ jobs'[apps[a].jobId].status = "open"
                   /\ jobs'[apps[a].jobId].assignedFreelancerId
                          = jobs[apps[a].jobId].assignedFreelancerId]_vars

\* Accepted, withdrawn and rewritten applications of a job that is open and
\* has no freelancer assigned.
C24_Witness ==
    \E a, b \in DOMAIN apps :
        /\ apps[a].status = "accepted"
        /\ apps[b].status = "withdrawn"
        /\ apps[b].coverLetter = "v2"
        /\ apps[a].jobId = apps[b].jobId
        /\ jobs[apps[a].jobId].status = "open"
        /\ jobs[apps[a].jobId].assignedFreelancerId = NoId

(***************************************************************************)
(* Further properties of the gamification engine.                          *)
(***************************************************************************)
\* The criterion of achievement a, against a streak, a number of completed
\* jobs and a points total.
CriterionHolds(a, streak, jobsCompleted, total) ==
    \/ a.type = "streak_days" /\ streak >= a.target
    \/ a.type = "jobs_completed" /\ jobsCompleted >= a.target
    \/ a.type = "total_points" /\ total >= a.target

\* The user document when recordActivity(u, type) reaches checkAchievements.
BeforePass(u, type) ==
    updateStreak([gam[u] EXCEPT !.totalPoints = @ + PointsTable[type]], now)

\* The ids that recordActivity(u, type) adds to the achievements of u.
UnlockedBy(u, type) ==
    LET r == recordActivity(gam, stats, ledger, u, type, now) IN
    {r.gam[u].achievements[i] : i \in 1..Len(r.gam[u].achievements)}
        \ {gam[u].achievements[i] : i \in 1..Len(gam[u].achievements)}

\* The bonus points of the achievements of U that stand before position i.
RECURSIVE BonusBefore(_, _, _)
BonusBefore(ach, U, i) ==
    IF i <= 1 THEN 0
    ELSE (IF ach[i - 1].id \in U THEN ach[i - 1].points ELSE 0)
             + BonusBefore(ach, U, i - 1)

\* C26: one forward pass with live mutation: the active achievement at
\* position i is unlocked by a call exactly when the user does not hold it
\* and its criterion holds against the points that include the bonuses of
\* the achievements unlocked at positions before i in that call, and none
\* of those unlocked after it.
C26_ForwardPassLive ==
    \A u \in Users, type \in ActivityType :
        LET ach == ActiveAchievements
            pre == BeforePass(u, type)
            U   == UnlockedBy(u, type)
        IN
        \A i \in 1..Len(ach) :
            ach[i].id \in U <=>
                /\ ~InSeq(ach[i].id, gam[u].achievements)
                /\ CriterionHolds(ach[i], pre.currentStreak, stats[u].jobsCompleted,
                                  pre.totalPoints + BonusBefore(ach, U, i))

\* One job_completed activity of a new user: the 50 points unlock points50,
\* its bonus unlocks late100 in the same call, and early100, which stands
\* before points50, stays locked.
C26_Witness ==
    \E u \in Users :
        /\ catalog = CatalogChain
        /\ Len(EventsOf(ledger, u)) = 1
        /\ gam[u].achievements = <<"points50", "late100">>
        /\ gam[u].totalPoints = 120

\* The activity types that are not in the enum.
UnknownTypes == {"review_left"}

\* C27: recordActivity with a type outside the six known ones succeeds,
\* appends a ledger event with 0 points, adds no points but achievement
\* bonuses, and runs the streak update.
C27_UnknownTypeAccepted ==
    \A u \in Users, type \in UnknownTypes :
        LET r == recordActivity(gam, stats, ledger, u, type, now)
            g == updateStreak(gam[u], now)
        IN
        /\ r.err = Ok
        /\ Len(r.ledger) = Len(ledger) + 1
        /\ r.ledger[Len(r.ledger)].type = type
        /\ r.ledger[Len(r.ledger)].points = 0
        /\ r.gam[u].currentStreak = g.currentStreak
        /\ r.gam[u].longestStreak = g.longestStreak
        /\ r.gam[u].lastActivityDate = g.lastActivityDate

\* C28: an achievement that a call unlocks is active, was not held, has one
\* of the three known criteria and meets it when it is evaluated; so no user
\* ever holds an inactive achievement or one with another criteria type.
C28_UnlockOnlyWhenMet ==
    \A u \in Users :
        /\ \A k \in 1..Len(gam[u].achievements) :
              \E i \in 1..Len(catalog) :
                  /\ catalog[i].id = gam[u].achievements[k]
                  /\ catalog[i].isActive
                  /\ catalog[i].type \in {"streak_days", "jobs_completed", "total_points"}
        /\ \A type \in ActivityType :
              LET ach == ActiveAchievements
                  pre == BeforePass(u, type)
                  U   == UnlockedBy(u, type)
              IN
              \A id \in U :
                  /\ ~InSeq(id, gam[u].achievements)
                  /\ \E i \in 1..Len(ach) :
                        /\ ach[i].id = id
                        /\ ach[i].isActive
                        /\ CASE ach[i].type = "streak_days" ->
                                    pre.currentStreak >= ach[i].target
                             [] ach[i].type = "jobs_completed" ->
                                    stats[u].jobsCompleted >= ach[i].target
                             [] ach[i].type = "total_points" ->
                                    pre.totalPoints + BonusBefore(ach, U, i)
                                        >= ach[i].target
                             [] OTHER -> FALSE

\* A user with a completed job and a streak who holds firstJob, and holds
\* neither the inactive achievement whose criterion the streak meets nor
\* the one with the unknown criteria type.
C28_Witness ==
    \E u \in Users :
        /\ catalog = Catalog
        /\ gam[u].currentStreak >= 2
        /\ InSeq("firstJob", gam[u].achievements)
        /\ InSeq("streak2", gam[u].achievements)
        /\ ~InSeq("retired", gam[u].achievements)
        /\ ~InSeq("applicant", gam[u].achievements)

\* C29: recordActivity for an id that names no user fails with NotFound,
\* appends no ledger event and modifies no user.
C29_UnknownUserNotFound ==
    \A type \in ActivityType \cup UnknownTypes :
        LET r == recordActivity(gam, stats, ledger, NoId, type, now) IN
        /\ r.err = "NOT_FOUND"
        /\ r.ledger = ledger
        /\ r.gam = gam

\* Users with recorded activities, and the call for the id without user
\* fails.
C29_Witness ==
    /\ Len(ledger) >= 2
    /\ \E u \in Users : gam[u].totalPoints > 0
    /\ NoId \notin DOMAIN gam
    /\ recordActivity(gam, stats, ledger, NoId, "login", now).err = "NOT_FOUND"

\* C30: getLeaderboard(limit) returns min(limit, number of users) entries,
\* ranked 1..n in order, with points that do not increase along the ranks,
\* and every user left out has no more points than the last entry.
C30_LeaderboardTopN ==
    \A limit \in Limits :
        \A lb \in getLeaderboard(gam, limit) :
            LET n == IF limit < Cardinality(Users) THEN limit ELSE Cardinality(Users) IN
            /\ Len(lb) = n
            /\ \A i \in 1..Len(lb) : lb[i].rank = i
            /\ \A i \in 1..Len(lb) : lb[i].totalPoints = gam[lb[i].user].totalPoints
            /\ \A i, k \in 1..Len(lb) : i < k => lb[i].totalPoints >= lb[k].totalPoints
            /\ \A u \in Users :
                  (Len(lb) > 0 /\ \A i \in 1..Len(lb) : lb[i].user # u)
                      => gam[u].totalPoints <= lb[Len(lb)].totalPoints

(***************************************************************************)
(* Invariants of the stored jobs and applications.                         *)
(***************************************************************************)
\* C31: a stored application has respondedAt exactly when its status is
\* accepted or rejected.
C31_RespondedIffDecided ==
    \A a \in DOMAIN apps :
        apps[a].respondedAt # NoDate <=> apps[a].status \in {"accepted", "rejected"}

\* An accepted application with the competitor that the accept rejected.
C31_Witness ==
    \E a, b \in DOMAIN apps :
        /\ apps[a].status = "accepted"
        /\ apps[b].status = "rejected"
        /\ apps[a].jobId = apps[b].jobId
        /\ apps[a].respondedAt = apps[b].respondedAt
        /\ apps[a].respondedAt # NoDate

\* C32: applicationsCount of every job is the number of stored applications
\* of the job that are not withdrawn.
C32_CountMatchesApplications ==
    \A j \in DOMAIN jobs :
        jobs[j].applicationsCount =
            Cardinality({a \in DOMAIN apps :
                            apps[a].jobId = j /\ apps[a].status # "withdrawn"})

\* C33: with atomic calls every job has at most one accepted application.
C33_OneAcceptedPerJob ==
    \A j \in JobIds : Cardinality(AcceptedOf(j)) <= 1

\* C34: a job that is in_progress or completed has a freelancer-role user
\* as assignedFreelancerId, and a job that is draft or open has none.
C34_AssigneeMatchesStatus ==
    \A j \in DOMAIN jobs :
        /\ jobs[j].status \in {"in_progress", "completed"}
              => (jobs[j].assignedFreelancerId \in Users
                    /\ role(jobs[j].assignedFreelancerId) = "freelancer")
        /\ jobs[j].status \in {"draft", "open"} => jobs[j].assignedFreelancerId = NoId

\* C35: every stored application refers to a stored job.
C35_ApplicationsHaveJob ==
    \A a \in DOMAIN apps : apps[a].jobId \in DOMAIN jobs

(***************************************************************************)
(* Further properties of concurrent requests.                              *)
(***************************************************************************)
\* C36: when accept, reject and withdraw calls interleave at their storage
\* calls, no step overwrites a status that is accepted, rejected or
\* withdrawn, and once the calls have returned the job's applicationsCount
\* was lowered only for the applications that are withdrawn.
C36_StatusWrittenOnce ==
    [][/\ \A a \in DOMAIN apps :
             (apps[a].status # "pending" /\ a \in DOMAIN apps')
                 => apps'[a].status = apps[a].status
       /\ (\A p \in Procs : call'[p].pc \in {"idle", "done"})
             => \A j \in DOMAIN jobs' :
                    jobs'[j].applicationsCount =
                        Cardinality({a \in DOMAIN apps' :
                                        /\ apps'[a].jobId = j
                                        /\ apps'[a].status # "withdrawn"})]_vars

\* The completed jobs in which user u is the client or the assigned
\* freelancer.
CompletedJobsOf(u) ==
    {j \in DOMAIN jobs : /\ jobs[j].status = "completed"
                         /\ u \in {jobs[j].clientId, jobs[j].assignedFreelancerId}}

\* C37: once the completeJob calls have returned, each user's jobsCompleted
\* equals the number of completed jobs in which the user is the client or
\* the assigned freelancer, also when two calls on one job interleaved.
C37_JobCountedOnce ==
    (\A p \in Procs : call[p].pc \in {"idle", "done"})
        => \A u \in Users :
               stats[u].jobsCompleted = Cardinality(CompletedJobsOf(u))

\* C38: once the recordActivity calls have returned, every user's
\* totalPoints is the points of the user's ledger events plus one bonus per
\* achievement in the user's list, also when two calls for the user
\* interleaved between loading the user and saving it.
C38_NoPointsLost ==
    (\A p \in Procs : call[p].pc \in {"idle", "done"})
        => \A u \in Users :
               gam[u].totalPoints =
                   LedgerPoints(ledger, u, 1) + BonusPoints(gam[u].achievements, 1)

(***************************************************************************)
(* Properties of the authentication service.                               *)
(***************************************************************************)
\* C39: refresh tokens are single-use.  After refreshAccessToken(t) has
\* succeeded, a later refreshAccessToken(t) fails with Unauthorized; and
\* after logout(u, t), resetPassword or changePassword of the user u who
\* holds t, a later refreshAccessToken(t) fails with Unauthorized.
C39_RefreshTokensSingleUse ==
    \A tok \in TokenInputs, gap \in AuthGaps :
        /\ LET r == refreshAccessToken(auth, tok, now) IN
               r.err = Ok
                   => refreshAccessToken(r.auth, tok, now + gap).err = "UNAUTHORIZED"
        /\ \A u \in AuthUsers :
               InSeq(tok, auth[u].refreshTokens) =>
                   /\ refreshAccessToken(logout(auth, u, tok).auth, tok, now + gap).err
                          = "UNAUTHORIZED"
                   /\ \A cur, new \in Passwords :
                          LET c == changePassword(auth, u, cur, new) IN
                              c.err = Ok
                                  => refreshAccessToken(c.auth, tok, now + gap).err
                                         = "UNAUTHORIZED"
                   /\ \A rt \in ResetTokens, pw \in Passwords :
                          LET c == resetPassword(auth, rt, pw, now) IN
                              (c.err = Ok /\ c.auth[u].refreshTokens = <<>>)
                                  => refreshAccessToken(c.auth, tok, now + gap).err
                                         = "UNAUTHORIZED"

\* C40: for a user whose accountStatus is deleted or suspended, login fails
\* with Unauthorized and refreshAccessToken fails for every refresh token of
\* the user, a token issued before the status changed included.
C40_NoTokensForDeletedUsers ==
    \A u \in AuthUsers :
        auth[u].accountStatus \in {"deleted", "suspended"} =>
            /\ \A pw \in Passwords : login(auth, u, pw, now).err = "UNAUTHORIZED"
            /\ \A tok \in TokenInputs :
                   tok.userId = u => refreshAccessToken(auth, tok, now).err # Ok

====
